---- MODULE Spec2Model ----
(***************************************************************************)
(* The install workflow of the PureScript binary installer:                *)
(* installPurescript (cache lookup / restore / write), the acquisition     *)
(* downloadOrBuildPurescript (prebuilt download with build fallback),      *)
(* buildPurescript (source download, setup, build), the archive fetcher    *)
(* dlTar and the subprocess runner spawnStack, as one state machine.       *)
(* A step of the model is one continuation of the event loop: the code     *)
(* that runs from the settlement of an awaited operation to the next       *)
(* await.                                                                  *)
(***************************************************************************)
EXTENDS Naturals, Sequences, FiniteSets, TLC

\* ---------------------------------------------------------------- bounds

\* installations run one after the other against the same cache store
MaxRuns == 2
\* entries of one archive
MaxEntries == 1
\* size of an archive entry, in chunks
MaxSize == 1
\* stderr lines of one subprocess
MaxLines == 1

Versions == {"A", "B"}

\* ---------------------------------------------------------------- values

\* a file's content: the version it reports and whether `--version` exits 0
Bin(v, ok) == [kind |-> "file", ver |-> v, ok |-> ok]
NoFile == [kind |-> "none", ver |-> "-", ok |-> FALSE]
Directory == [kind |-> "dir", ver |-> "-", ok |-> FALSE]

\* the cache store under cacheKey: at most one entry
NoEntry == [present |-> FALSE, id |-> <<"-", "-">>, bin |-> NoFile]

\* a progress event {id: '<stage>[:<sub>]'}; found is search-cache's payload
Ev(stage, sub) == [id |-> stage, sub |-> sub, found |-> FALSE]
SearchEv(f) == [id |-> "search-cache", sub |-> "", found |-> f]

\* ---------------------------------------------------------------- state

VARIABLES
  run,          \* installations started so far
  version,      \* the version option of the current installation
  platform,     \* <<process.platform, process.arch>>
  pc,           \* the await the main flow is suspended at
  cache,        \* the cache store's entry under cacheKey
  target,       \* what is at binPath
  tmpdir,       \* the mkdtemp directory: "none" | "exists" | "removing"
  events,       \* the entries passed to progress(), in order
  seen,         \* how many of them the subscriber received
  closed,       \* the subscription is closed
  aborted,      \* signal.aborted
  result,       \* what the subscriber was told: "none" | "complete" | "error"
  errId,        \* the id of the error the flow is failing with ("" = none)
  pend,         \* how the acquisition settled: "" | "ok" | "err"
  broken,       \* main's brokenCacheFound
  acq,          \* calls of downloadOrBuildPurescript in this installation
  clean,        \* cacheCleaning: "idle" | "running" | "done"
  stack,        \* stackPromise: "idle" | "pending" | "ok" | "enoent" | "error"
  dl,           \* the dlTar call in flight
  imm,          \* entries whose progress waits in setImmediate
  headComplete, \* completeHead has run
  setup,        \* once(setup): "none" | "running" | "exit0" | "exitN" (the
                \* process has exited, 'close' is still to come) | "ok" |
                \* "fail" | "aborted" (rejected by the abort listener
                \* while running) | "abortedExit0" | "abortedExitN"
                \* (rejected by it after the exit)
  build,        \* the install subprocess, same values
  lines,        \* stderr lines the running subprocess has written
  lastWritten,  \* history: version of the last installation whose
                \* write-cache:complete reached the subscriber
  cancelAt,     \* history: where the flow was when cancellation fired
  consumer,     \* the CLI's view of its taskGroups
  call,         \* the arguments of the function applied on its own
  ret           \* what it returned, NoCall before it has

vars == <<run, version, platform, pc, cache, target, tmpdir, events, seen,
          closed, aborted, result, errId, pend, broken, acq, clean, stack,
          dl, imm, headComplete, setup, build, lines, lastWritten, cancelAt,
          consumer, call, ret>>

\* the variables of the workflow
flow == <<run, version, platform, pc, cache, target, tmpdir, events, seen,
          closed, aborted, result, errId, pend, broken, acq, clean, stack,
          dl, imm, headComplete, setup, build, lines, lastWritten, cancelAt,
          consumer>>

\* no function is applied on its own while the workflow runs
NoCall == [fn |-> "none"]

\* dlTar's state: kind is the archive ("binary" | "source"), st its phase,
\* n the entries read, cur the entry being written, rem its unwritten
\* chunks, first whether its first progress was emitted
NoDl == [kind |-> "-", st |-> "idle", n |-> 0, cur |-> "-", rem |-> 0,
         first |-> FALSE]

\* ------------------------------------------------------- the CLI consumer

\* index.js taskGroups: the stage ids of each group, in order
taskGroups ==
  <<{"search-cache"},
    {"restore-cache", "check-binary"},
    {"head", "download-binary", "check-binary", "write-cache"},
    {"head", "check-stack", "download-source", "setup", "build",
     "write-cache"}>>

\* g: groups shifted away; gone: tasks render() deleted from the first
\* group; crash: a lookup ran on the empty list (taskGroups[0] is undefined)
NoConsumer == [g |-> 0, gone |-> {}, crash |-> FALSE]

\* getCurrentTask: shift groups away until the first one holds the id; a
\* task render() has deleted from the first group is no longer held
RECURSIVE getCurrentTask(_, _)
getCurrentTask(c, id) ==
  IF c.crash \/ c.g >= Len(taskGroups) THEN [c EXCEPT !.crash = TRUE]
  ELSE IF id \in (taskGroups[c.g + 1] \ c.gone) THEN c
  ELSE getCurrentTask([c EXCEPT !.g = @ + 1, !.gone = {}], id)

allowFailure(id) == id = "write-cache"

\* the progress handler: a ':fail' of a task that may not fail shifts the
\* group away; render() deletes the tasks that are done or failed
handleProgress(c, e) ==
  LET t == getCurrentTask(c, e.id) IN
  IF t.crash THEN t
  ELSE IF e.sub = "fail" /\ ~allowFailure(e.id)
    THEN [t EXCEPT !.g = @ + 1, !.gone = {}]
  ELSE IF e.sub \in {"fail", "complete"}
    THEN [t EXCEPT !.gone = @ \cup {e.id}]
  ELSE t

RECURSIVE handleAll(_, _)
handleAll(c, es) ==
  IF es = <<>> THEN c ELSE handleAll(handleProgress(c, Head(es)), Tail(es))

\* the rejection handler: an error with an id looks its task up
handleError(c, id) == IF id = "" THEN c ELSE getCurrentTask(c, id)

\* ------------------------------------------------------------- observer

\* progress(entry) is observer.next(entry): a closed subscription drops it.
\* fin is "none", or the observer.complete() / observer.error(e) that ends
\* the flow; closing the subscription runs its cleanup, abort.abort().
Notify(es, fin, id) ==
  /\ events' = events \o es
  /\ seen' = IF closed THEN seen ELSE seen + Len(es)
  /\ result' = IF closed \/ fin = "none" THEN result ELSE fin
  /\ consumer' = IF closed THEN consumer
                 ELSE IF fin = "error" THEN handleError(handleAll(consumer, es), id)
                 ELSE handleAll(consumer, es)
  /\ closed' = (closed \/ fin # "none")
  /\ aborted' = (aborted \/ fin # "none")

\* the events the subscriber received
Delivered == SubSeq(events, 1, seen)

\* a spawnStack call that has not settled: its process runs, or has exited
\* with code 0 or another one while 'close' is still to be emitted
Unsettled == {"running", "exit0", "exitN"}

\* an abort listener that rejects only while the process is running
abortChildRunning(s) == IF s = "running" THEN "aborted" ELSE s

\* spawnStack's abort listener: cp.kill() and reject(e), which settles the
\* call unless 'close' has settled it before
abortChild(s) ==
  IF s = "running" THEN "aborted"
  ELSE IF s = "exit0" THEN "abortedExit0"
  ELSE IF s = "exitN" THEN "abortedExitN"
  ELSE s

\* the calls the abort listener has rejected
Aborted == {"aborted", "abortedExit0", "abortedExitN"}

\* observer.complete() / observer.error(e): the cleanup's abort() kills the
\* subprocesses that listen to the signal and are still alive
Finish(es, fin, id) ==
  /\ Notify(es, fin, id)
  /\ setup' = abortChild(setup)
  /\ build' = abortChild(build)

\* ------------------------------------------------------- pure operations

\* `${version}-${process.platform}-${arch}`; the platform stands for both
cacheId(v) == <<v, platform>>

\* the comparison with the sense of `!==` lost
cacheHitInverted(info, v) == info.id # cacheId(v)

\* the entry is taken without looking at its id
cacheHitAnyEntry(info, v) == TRUE

\* id !== cacheId, negated
cacheHit(info, v) == info.id = cacheId(v)

\* the child's exit code is not looked at
verifyBinaryExitIgnored(f) == f.kind = "file"

\* execFile(binPath, ['--version']) exits 0
verifyBinary(f) == f.kind = "file" /\ f.ok

\* cacache.put.stream(cacheRootDir, cacheKey, {metadata: {id: cacheId}})
putEntry(v, f) == [present |-> TRUE, id |-> cacheId(v), bin |-> f]

\* the binary archive's filter: basename(path, '.exe') === 'purs'
binaryFilter(name) == name = "purs"

\* the source archive's filter: extension, directory and file name rules
sourceFilter(name) == name \notin {"README.md", ".gitignore"}

\* entry.id.replace('download', 'download-source')
renameId(id) == IF id = "download" THEN "download-source" ELSE id

BinaryNames == {"purs", "other"}
SourceNames == {"stack.yaml", "Main.hs", "README.md"}

\* process.platform values with a prebuilt archive, and the <<platform, arch>>
\* pairs the installer is run on
supportedPlatforms == {"linux", "darwin", "win32"}
Platforms == {<<"linux", "x64">>, <<"freebsd", "x64">>, <<"linux", "ia32">>}
UnsupportedCodes == {"ERR_UNSUPPORTED_PLATFORM", "ERR_UNSUPPORTED_ARCH"}

\* a download that requests the archive whatever the platform is
downloadPurescriptAnywhere == IF aborted THEN "failed" ELSE "fetch"

\* downloadPurescript up to dlTar's fetch: the error code when there is no
\* prebuilt for the platform or the architecture, else
\* signal.throwIfAborted(), else the request is sent
downloadPurescript ==
  IF platform[1] \notin supportedPlatforms THEN "ERR_UNSUPPORTED_PLATFORM"
  ELSE IF platform[2] # "x64" THEN "ERR_UNSUPPORTED_ARCH"
  ELSE IF aborted THEN "failed"
  ELSE "fetch"

\* --------------------------------------------------------------- actions

InitCaches == {NoEntry, putEntry("A", Bin("A", TRUE)),
               putEntry("A", Bin("A", FALSE))}

Init ==
  /\ run = 0 /\ version = "A" /\ platform \in Platforms
  /\ pc = "idle"
  /\ cache \in InitCaches
  /\ target \in {NoFile, Directory}
  /\ tmpdir = "none"
  /\ events = <<>> /\ seen = 0 /\ closed = FALSE /\ aborted = FALSE
  /\ result = "none" /\ errId = "" /\ pend = "" /\ broken = FALSE
  /\ acq = 0 /\ clean = "idle" /\ stack = "idle" /\ dl = NoDl
  /\ imm = <<>> /\ headComplete = FALSE
  /\ setup = "none" /\ build = "none" /\ lines = 0
  /\ lastWritten = (IF cache.present THEN "A" ELSE "-") /\ cancelAt = "-"
  /\ consumer = NoConsumer
  /\ call = NoCall /\ ret = NoCall

\* nothing of the previous installation is still running
Quiet ==
  /\ pc \in {"idle", "done"}
  /\ imm = <<>> /\ tmpdir # "removing"
  /\ setup \notin Unsettled /\ build \notin Unsettled
  /\ stack # "pending" /\ clean # "running"
  /\ dl.st \notin {"fetch", "stream"}

\* installPurescript({version: v}) is subscribed to
Start(v) ==
  /\ Quiet /\ run < MaxRuns
  /\ run' = run + 1 /\ version' = v
  /\ pc' = "search"
  /\ events' = <<>> /\ seen' = 0 /\ closed' = FALSE /\ aborted' = FALSE
  /\ result' = "none" /\ errId' = "" /\ pend' = "" /\ broken' = FALSE
  /\ acq' = 0 /\ clean' = "idle" /\ stack' = "idle" /\ dl' = NoDl
  /\ imm' = <<>> /\ headComplete' = FALSE
  /\ setup' = "none" /\ build' = "none" /\ lines' = 0
  /\ cancelAt' = "-" /\ consumer' = NoConsumer
  /\ UNCHANGED <<platform, cache, target, tmpdir, lastWritten>>
  /\ UNCHANGED <<call, ret>>

\* main without the 'head' notification of downloadOrBuildPurescript
mainNoHead(b, es) ==
  /\ broken' = b /\ clean' = "running"
  /\ acq' = acq + 1 /\ stack' = "pending" /\ headComplete' = FALSE
  /\ Notify(es, "none", "")
  /\ dl' = [NoDl EXCEPT !.kind = "binary", !.st = downloadPurescript]
  /\ pc' = "download"

\* main(brokenCacheFound) up to the first await of the acquisition: the
\* cache cleaning starts, downloadOrBuildPurescript looks `stack` up,
\* emits 'head' and calls downloadPurescript
main(b, es) ==
  /\ broken' = b /\ clean' = "running"
  /\ acq' = acq + 1 /\ stack' = "pending" /\ headComplete' = FALSE
  /\ Notify(es \o <<Ev("head", "")>>, "none", "")
  /\ dl' = [NoDl EXCEPT !.kind = "binary", !.st = downloadPurescript]
  /\ pc' = "download"

\* a search that leaves the file at binPath where it is
SearchDoneKeepsFile ==
  /\ pc = "search"
  /\ IF target.kind = "dir"
     THEN /\ Finish(<<>>, "error", "")
          /\ pc' = "done"
          /\ UNCHANGED <<target, broken, clean, acq, stack, headComplete, dl>>
     ELSE /\ target' = target
          /\ IF aborted
             THEN /\ Finish(<<>>, "error", "")
                  /\ pc' = "done"
                  /\ UNCHANGED <<broken, clean, acq, stack, headComplete, dl>>
             ELSE IF ~cache.present
             THEN main(FALSE, <<SearchEv(FALSE)>>) /\ UNCHANGED <<setup, build>>
             ELSE IF ~cacheHit(cache, version)
             THEN main(TRUE, <<SearchEv(FALSE)>>) /\ UNCHANGED <<setup, build>>
             ELSE /\ Notify(<<SearchEv(TRUE), Ev("restore-cache", "")>>,
                            "none", "")
                  /\ pc' = "restore"
                  /\ UNCHANGED <<broken, clean, acq, stack, headComplete, dl,
                                 setup, build>>
  /\ UNCHANGED <<run, version, platform, cache, tmpdir, errId, pend, imm,
                 lines, lastWritten, cancelAt>>
  /\ UNCHANGED <<call, ret>>

\* the cache lookup and the stat/unlink of binPath have settled
SearchDone ==
  /\ pc = "search"
  /\ IF target.kind = "dir"
     THEN /\ Finish(<<>>, "error", "")
          /\ pc' = "done"
          /\ UNCHANGED <<target, broken, clean, acq, stack, headComplete, dl>>
     ELSE /\ target' = NoFile
          /\ IF aborted
             THEN /\ Finish(<<>>, "error", "")
                  /\ pc' = "done"
                  /\ UNCHANGED <<broken, clean, acq, stack, headComplete, dl>>
             ELSE IF ~cache.present
             THEN main(FALSE, <<SearchEv(FALSE)>>) /\ UNCHANGED <<setup, build>>
             ELSE IF ~cacheHit(cache, version)
             THEN main(TRUE, <<SearchEv(FALSE)>>) /\ UNCHANGED <<setup, build>>
             ELSE /\ Notify(<<SearchEv(TRUE), Ev("restore-cache", "")>>,
                            "none", "")
                  /\ pc' = "restore"
                  /\ UNCHANGED <<broken, clean, acq, stack, headComplete, dl,
                                 setup, build>>
  /\ UNCHANGED <<run, version, platform, cache, tmpdir, errId, pend, imm,
                 lines, lastWritten, cancelAt>>
  /\ UNCHANGED <<call, ret>>

\* the copy of the cached content to binPath and the chmod have settled
RestoreDone(ok) ==
  /\ pc = "restore"
  /\ IF ok
     THEN /\ target' = cache.bin
          /\ Notify(<<Ev("restore-cache", "complete"), Ev("check-binary", "")>>,
                    "none", "")
          /\ pc' = "verifyCache"
          /\ UNCHANGED <<broken, clean, acq, stack, headComplete, dl>>
     ELSE /\ target' \in {NoFile, Bin(cache.bin.ver, FALSE)}
          /\ main(TRUE, <<Ev("restore-cache", "fail")>>)
  /\ UNCHANGED <<run, version, platform, cache, tmpdir, errId, pend, imm,
                 setup, build, lines, lastWritten, cancelAt>>
  /\ UNCHANGED <<call, ret>>

\* a failed verification that goes back to the cache search
VerifyCacheLoops ==
  /\ pc = "verifyCache"
  /\ IF verifyBinary(target)
     THEN Finish(<<Ev("check-binary", "complete")>>, "complete", "")
            /\ pc' = "done"
     ELSE Notify(<<Ev("check-binary", "fail")>>, "none", "")
            /\ pc' = "search" /\ UNCHANGED <<setup, build>>
  /\ UNCHANGED <<run, version, platform, cache, target, tmpdir, errId, pend,
                 imm, lines, lastWritten, cancelAt, broken, clean, acq,
                 stack, headComplete, dl>>
  /\ UNCHANGED <<call, ret>>

\* verifyBinary(binPath) of the restored binary has settled
VerifyCache ==
  /\ pc = "verifyCache"
  /\ IF verifyBinary(target)
     THEN /\ Finish(<<Ev("check-binary", "complete")>>, "complete", "")
          /\ pc' = "done"
          /\ UNCHANGED <<broken, clean, acq, stack, headComplete, dl>>
     ELSE /\ main(TRUE, <<Ev("check-binary", "fail")>>)
          /\ UNCHANGED <<setup, build>>
  /\ UNCHANGED <<run, version, platform, cache, target, tmpdir, errId, pend,
                 imm, lines, lastWritten, cancelAt>>
  /\ UNCHANGED <<call, ret>>

\* ------------------------------------------------------------------ dlTar

Silent == UNCHANGED <<events, seen, result, consumer, closed, aborted>>

\* the id the caller's progress callback gives a dlTar entry
progressId(kind) ==
  IF kind = "binary" THEN "download-binary" ELSE renameId("download")

\* k progress notifications of the running download
progressEvents(kind, k) == [i \in 1..k |-> Ev(progressId(kind), "")]

\* a progress callback that starts setup() at the last byte of any entry
startsSetupAnyEntry(kind, name, remain) ==
  kind = "source" /\ remain = 0 /\ setup = "none"

\* buildPurescript's progress callback starts setup() once stack.yaml has
\* no bytes left; once(): only the first call spawns
startsSetup(kind, name, remain) ==
  kind = "source" /\ name = "stack.yaml" /\ remain = 0 /\ setup = "none"

\* fetch() has settled; a response that is not ok, or an abort meanwhile,
\* rejects dlTar
FetchDone(ok) ==
  /\ dl.st = "fetch" /\ imm = <<>>
  /\ dl' = [dl EXCEPT !.st = IF ok /\ ~aborted THEN "stream" ELSE "failed"]
  /\ Silent
  /\ UNCHANGED <<run, version, platform, pc, cache, target, tmpdir, errId,
                 pend, broken, acq, clean, stack, imm, headComplete, setup,
                 build, lines, lastWritten, cancelAt>>
  /\ UNCHANGED <<call, ret>>

\* the header of the next archive entry is parsed: filter, then onentry
DlEntry(name, size) ==
  /\ dl.st = "stream" /\ dl.rem = 0 /\ dl.n < MaxEntries
  /\ name \in (IF dl.kind = "binary" THEN BinaryNames ELSE SourceNames)
  /\ LET accepted == IF dl.kind = "binary" THEN binaryFilter(name)
                     ELSE sourceFilter(name)
     IN /\ (~accepted => size = 0)
        /\ dl' = [dl EXCEPT !.n = @ + 1,
                            !.cur = IF accepted /\ size > 0 THEN name ELSE "-",
                            !.rem = IF accepted THEN size ELSE 0,
                            !.first = FALSE]
        /\ imm' = IF accepted /\ size = 0
                  THEN Append(imm, [kind |-> dl.kind, name |-> name])
                  ELSE imm
        /\ IF accepted /\ dl.kind = "binary"
           THEN /\ headComplete' = TRUE
                /\ target' = Bin(version, FALSE)
                /\ Notify(IF headComplete THEN <<>>
                          ELSE <<Ev("head", "complete")>>, "none", "")
           ELSE /\ Silent
                /\ UNCHANGED <<headComplete, target>>
  /\ UNCHANGED <<run, version, platform, pc, cache, tmpdir, errId, pend,
                 broken, acq, clean, stack, setup, build, lines, lastWritten,
                 cancelAt>>
  /\ UNCHANGED <<call, ret>>

\* a chunk of the current entry is written: the first write emits the first
\* progress (remain = size) and then the progress after the write
DlChunk(works) ==
  /\ dl.st = "stream" /\ dl.rem > 0
  /\ (works => dl.kind = "binary" /\ dl.rem = 1)
  /\ LET remain == dl.rem - 1 IN
     /\ dl' = [dl EXCEPT !.rem = remain, !.first = TRUE,
                         !.cur = IF remain = 0 THEN "-" ELSE @]
     /\ Notify(progressEvents(dl.kind, IF dl.first THEN 1 ELSE 2), "none", "")
     /\ target' = IF dl.kind = "binary"
                  THEN Bin(version, works /\ remain = 0) ELSE target
     /\ IF startsSetup(dl.kind, dl.cur, remain)
        THEN setup' = "running" /\ lines' = 0
        ELSE UNCHANGED <<setup, lines>>
  /\ UNCHANGED <<run, version, platform, pc, cache, tmpdir, errId, pend,
                 broken, acq, clean, stack, imm, headComplete, build,
                 lastWritten, cancelAt>>
  /\ UNCHANGED <<call, ret>>

\* a setImmediate callback runs: emitProgress of an entry without bytes;
\* signal.throwIfAborted() in the progress wrapper is swallowed
FireImm ==
  /\ imm # <<>>
  /\ imm' = Tail(imm)
  /\ LET e == Head(imm) IN
     IF aborted
     THEN Silent /\ UNCHANGED <<setup, lines>>
     ELSE /\ Notify(progressEvents(e.kind, 1), "none", "")
          /\ IF startsSetup(e.kind, e.name, 0)
             THEN setup' = "running" /\ lines' = 0
             ELSE UNCHANGED <<setup, lines>>
  /\ UNCHANGED <<run, version, platform, pc, cache, target, tmpdir, errId,
                 pend, broken, acq, clean, stack, dl, headComplete, build,
                 lastWritten, cancelAt>>
  /\ UNCHANGED <<call, ret>>

\* ---------------------------------------------- downloadOrBuildPurescript

resolve == pc' = "awaitClean" /\ pend' = "ok" /\ UNCHANGED errId
reject(id) == pc' = "awaitClean" /\ pend' = "err" /\ errId' = id

\* startBuild whose caller forgot the ':fail' notification
startBuildSilent(es) ==
  /\ Notify(<<>>, "none", "")
  /\ IF aborted THEN resolve
     ELSE pc' = "awaitStack" /\ UNCHANGED <<pend, errId>>

\* startBuild up to its first await: an aborted signal makes it return
startBuild(es) ==
  /\ Notify(es, "none", "")
  /\ IF aborted THEN resolve
     ELSE pc' = "awaitStack" /\ UNCHANGED <<pend, errId>>

\* the prebuilt archive is extracted: dlTar resolves
DownloadOk ==
  /\ pc = "download" /\ dl.st = "stream" /\ dl.rem = 0 /\ imm = <<>>
  /\ Notify(<<Ev("download-binary", "complete"), Ev("check-binary", "")>>,
            "none", "")
  /\ pc' = "verifyDl" /\ dl' = NoDl
  /\ UNCHANGED <<run, version, platform, cache, target, tmpdir, errId, pend,
                 broken, acq, clean, stack, imm, headComplete, setup, build,
                 lines, lastWritten, cancelAt>>
  /\ UNCHANGED <<call, ret>>

\* the rejection handler of the download emitting nothing once head is
\* complete
DownloadRejectedQuiet ==
  /\ pc = "download" /\ dl.st \in {"stream", "failed"} \cup UnsupportedCodes
  /\ dl' = NoDl
  /\ IF headComplete
     THEN startBuild(<<>>)
     ELSE IF dl.st \in UnsupportedCodes
     THEN startBuild(<<Ev("head", "fail")>>)
     ELSE Silent /\ reject("head")
  /\ UNCHANGED <<run, version, platform, cache, target, tmpdir, broken, acq,
                 clean, stack, imm, headComplete, setup, build, lines,
                 lastWritten, cancelAt>>
  /\ UNCHANGED <<call, ret>>

\* downloadPurescript rejects: no prebuilt binary for the platform, a
\* response that is not ok, a stream error or an abort
DownloadRejected ==
  /\ pc = "download" /\ dl.st \in {"stream", "failed"} \cup UnsupportedCodes
  /\ dl' = NoDl
  /\ IF headComplete
     THEN startBuild(<<Ev("download-binary", "fail")>>)
     ELSE IF dl.st \in UnsupportedCodes
     THEN startBuild(<<Ev("head", "fail")>>)
     ELSE Silent /\ reject("head")
  /\ UNCHANGED <<run, version, platform, cache, target, tmpdir, broken, acq,
                 clean, stack, imm, headComplete, setup, build, lines,
                 lastWritten, cancelAt>>
  /\ UNCHANGED <<call, ret>>

\* the downloaded binary taken as verified without being run
VerifyDlTrusting ==
  /\ pc = "verifyDl" /\ imm = <<>>
  /\ Notify(<<Ev("check-binary", "complete")>>, "none", "") /\ resolve
  /\ UNCHANGED <<run, version, platform, cache, target, tmpdir, broken, acq,
                 clean, stack, dl, imm, headComplete, setup, build, lines,
                 lastWritten, cancelAt>>
  /\ UNCHANGED <<call, ret>>

\* verifyBinary(binPath) of the downloaded binary has settled
VerifyDl ==
  /\ pc = "verifyDl" /\ imm = <<>>
  /\ IF verifyBinary(target)
     THEN Notify(<<Ev("check-binary", "complete")>>, "none", "") /\ resolve
     ELSE startBuild(<<Ev("check-binary", "fail")>>)
  /\ UNCHANGED <<run, version, platform, cache, target, tmpdir, broken, acq,
                 clean, stack, dl, imm, headComplete, setup, build, lines,
                 lastWritten, cancelAt>>
  /\ UNCHANGED <<call, ret>>

\* which('stack') and `stack --numeric-version` have settled; only the
\* await in startBuild observes it, so the step is taken once startBuild
\* waits for it or the run is over
StackSettle(r) ==
  /\ stack = "pending" /\ pc \in {"awaitStack", "done"}
  /\ stack' = r
  /\ Silent
  /\ UNCHANGED <<run, version, platform, pc, cache, target, tmpdir, errId,
                 pend, broken, acq, clean, dl, imm, headComplete, setup,
                 build, lines, lastWritten, cancelAt>>
  /\ UNCHANGED <<call, ret>>

\* a rejection of stackPromise that always names the install page
stackErrorGuided == [id |-> "check-stack", INSTALL_URL |-> TRUE]

\* the rejection of stackPromise as startBuild rethrows it: only the ENOENT
\* of which('stack') gets INSTALL_URL; a failed or timed out
\* `stack --numeric-version` (both stand as "error") is passed on as it is
stackError == [id |-> "check-stack", INSTALL_URL |-> stack = "enoent"]

\* startBuild after `await stackPromise`, up to buildPurescript's mkdtemp
AwaitStack ==
  /\ pc = "awaitStack" /\ stack # "pending"
  /\ IF stack = "ok"
     THEN /\ Notify(<<Ev("check-stack", ""), Ev("check-stack", "complete")>>,
                    "none", "")
          /\ pc' = "mkdtemp" /\ UNCHANGED <<pend, errId>>
     ELSE Silent /\ reject("check-stack")
  /\ UNCHANGED <<run, version, platform, cache, target, tmpdir, broken, acq,
                 clean, stack, dl, imm, headComplete, setup, build, lines,
                 lastWritten, cancelAt>>
  /\ UNCHANGED <<call, ret>>

\* ---------------------------------------------------------- buildPurescript

\* a finally block that leaves the build directory where it is
rimrafNever == tmpdir' = tmpdir

\* the finally block of buildPurescript starts rimraf(cwd)
rimraf == tmpdir' = "removing"

\* mkdtemp has created the build directory; then signal.throwIfAborted()
\* and the source download starts
Mkdtemp ==
  /\ pc = "mkdtemp" /\ imm = <<>>
  /\ Silent
  /\ IF aborted
     THEN rimraf /\ reject("") /\ UNCHANGED dl
     ELSE /\ tmpdir' = "exists"
          /\ dl' = [NoDl EXCEPT !.kind = "source", !.st = "fetch"]
          /\ pc' = "dlSource" /\ UNCHANGED <<pend, errId>>
  /\ UNCHANGED <<run, version, platform, cache, target, broken, acq, clean,
                 stack, imm, headComplete, setup, build, lines, lastWritten,
                 cancelAt>>
  /\ UNCHANGED <<call, ret>>

\* SourceOk without once(): the late call spawns `stack setup` again
SourceOkRespawns ==
  /\ pc = "dlSource" /\ dl.st = "stream" /\ dl.rem = 0 /\ imm = <<>>
  /\ Notify(<<Ev(renameId("download"), "complete")>>, "none", "")
  /\ dl' = NoDl /\ pc' = "awaitSetup"
  /\ setup' = "running" /\ lines' = 0
  /\ UNCHANGED <<run, version, platform, cache, target, tmpdir, errId, pend,
                 broken, acq, clean, stack, imm, headComplete, build,
                 lastWritten, cancelAt>>
  /\ UNCHANGED <<call, ret>>

\* the source archive is extracted: download:complete, then `await setup()`
SourceOk ==
  /\ pc = "dlSource" /\ dl.st = "stream" /\ dl.rem = 0 /\ imm = <<>>
  /\ Notify(<<Ev(renameId("download"), "complete")>>, "none", "")
  /\ dl' = NoDl /\ pc' = "awaitSetup"
  /\ IF setup = "none"
     THEN setup' = "running" /\ lines' = 0
     ELSE UNCHANGED <<setup, lines>>
  /\ UNCHANGED <<run, version, platform, cache, target, tmpdir, errId, pend,
                 broken, acq, clean, stack, imm, headComplete, build,
                 lastWritten, cancelAt>>
  /\ UNCHANGED <<call, ret>>

\* the source download rejects: e.id = 'download', renamed by startBuild
SourceRejected ==
  /\ pc = "dlSource" /\ dl.st \in {"stream", "failed"}
  /\ Silent
  /\ dl' = NoDl /\ rimraf /\ reject(renameId("download"))
  /\ UNCHANGED <<run, version, platform, cache, target, broken, acq, clean,
                 stack, imm, headComplete, setup, build, lines, lastWritten,
                 cancelAt>>
  /\ UNCHANGED <<call, ret>>

\* `stack setup` writes a line on stderr
SetupLine ==
  /\ setup = "running" /\ lines < MaxLines
  /\ lines' = lines + 1
  /\ Notify(IF aborted THEN <<>> ELSE <<Ev("setup", "")>>, "none", "")
  /\ UNCHANGED <<run, version, platform, pc, cache, target, tmpdir, errId,
                 pend, broken, acq, clean, stack, dl, imm, headComplete,
                 setup, build, lastWritten, cancelAt>>
  /\ UNCHANGED <<call, ret>>

\* `stack setup` exits with code 0 or another one
SetupExit(ok) ==
  /\ setup = "running"
  /\ setup' = IF ok THEN "exit0" ELSE "exitN"
  /\ Silent
  /\ UNCHANGED <<run, version, platform, pc, cache, target, tmpdir, errId,
                 pend, broken, acq, clean, stack, dl, imm, headComplete,
                 build, lines, lastWritten, cancelAt>>
  /\ UNCHANGED <<call, ret>>

\* a setup() whose failure is thrown into the flow as soon as it happens
SetupCloseSurfaces ==
  /\ setup \in {"exit0", "exitN"}
  /\ setup' = IF setup = "exit0" THEN "ok" ELSE "fail"
  /\ Silent
  /\ IF setup = "exitN" /\ pc = "dlSource"
     THEN dl' = NoDl /\ rimraf /\ reject("setup")
     ELSE UNCHANGED <<dl, tmpdir, pc, pend, errId>>
  /\ UNCHANGED <<run, version, platform, cache, target,
                 broken, acq, clean, stack, imm, headComplete,
                 build, lines, lastWritten, cancelAt>>
  /\ UNCHANGED <<call, ret>>

\* a spawnStack that hears 'close' only when the code is 0
SetupCloseOnSuccess ==
  /\ setup = "exit0"
  /\ setup' = "ok"
  /\ Silent
  /\ UNCHANGED <<run, version, platform, pc, cache, target, tmpdir, errId,
                 pend, broken, acq, clean, stack, dl, imm, headComplete,
                 build, lines, lastWritten, cancelAt>>
  /\ UNCHANGED <<call, ret>>

\* 'close' of `stack setup`: resolve() for code 0, else reject(e) with the
\* exit-status error, and spawnStack settles in the same turn
SetupClose ==
  /\ setup \in {"exit0", "exitN"}
  /\ setup' = IF setup = "exit0" THEN "ok" ELSE "fail"
  /\ Silent
  /\ UNCHANGED <<run, version, platform, pc, cache, target, tmpdir, errId,
                 pend, broken, acq, clean, stack, dl, imm, headComplete,
                 build, lines, lastWritten, cancelAt>>
  /\ UNCHANGED <<call, ret>>

\* `await setup()` settles; setup:complete and the spawn of `stack install`,
\* whose first statement is signal.throwIfAborted()
SetupAwaited ==
  /\ pc = "awaitSetup"
  /\ setup \in {"ok", "fail"} \cup Aborted
  /\ IF setup # "ok"
     THEN Silent /\ rimraf /\ reject("setup") /\ UNCHANGED <<build, lines>>
     ELSE IF aborted
     THEN Silent /\ rimraf /\ reject("") /\ UNCHANGED <<build, lines>>
     ELSE /\ Notify(<<Ev("setup", "complete")>>, "none", "")
          /\ build' = "running" /\ lines' = 0 /\ pc' = "build"
          /\ UNCHANGED <<tmpdir, pend, errId>>
  /\ UNCHANGED <<run, version, platform, cache, target, broken, acq, clean,
                 stack, dl, imm, headComplete, setup, lastWritten, cancelAt>>
  /\ UNCHANGED <<call, ret>>

\* lines of `stack install` that are not worth a notification
negligibleLineRe(negligible) == negligible

\* `stack install` writes a line on stderr
BuildLine(negligible) ==
  /\ build = "running" /\ lines < MaxLines
  /\ lines' = lines + 1
  /\ Notify(IF aborted \/ negligibleLineRe(negligible) THEN <<>>
            ELSE <<Ev("build", "")>>, "none", "")
  /\ UNCHANGED <<run, version, platform, pc, cache, target, tmpdir, errId,
                 pend, broken, acq, clean, stack, dl, imm, headComplete,
                 setup, build, lastWritten, cancelAt>>
  /\ UNCHANGED <<call, ret>>

\* `stack install` exits with code 0 or another one
BuildExit(ok) ==
  /\ build = "running"
  /\ build' = IF ok THEN "exit0" ELSE "exitN"
  /\ Silent
  /\ UNCHANGED <<run, version, platform, pc, cache, target, tmpdir, errId,
                 pend, broken, acq, clean, stack, dl, imm, headComplete,
                 setup, lines, lastWritten, cancelAt>>
  /\ UNCHANGED <<call, ret>>

\* `stack install` settles, rejected by the abort listener or by 'close'
\* with a code, and buildPurescript goes on in the same turn
BuildAwaited ==
  /\ pc = "build" /\ imm = <<>>
  /\ build \in {"exit0", "exitN"} \cup Aborted
  /\ Silent
  /\ rimraf
  /\ IF build = "exit0" /\ ~aborted
     THEN build' = "ok" /\ pc' = "rename" /\ UNCHANGED <<pend, errId>>
     ELSE /\ build' = IF build = "exit0" THEN "ok"
                      ELSE IF build = "exitN" THEN "fail" ELSE build
          /\ reject(IF build = "exit0" THEN "" ELSE "build")
  /\ UNCHANGED <<run, version, platform, cache, target, broken, acq, clean,
                 stack, dl, imm, headComplete, setup, lines, lastWritten,
                 cancelAt>>
  /\ UNCHANGED <<call, ret>>

\* a startBuild that announces build:complete without awaiting rename
RenameUnawaited(produced) ==
  /\ pc = "rename" /\ imm = <<>>
  /\ target' = IF produced THEN Bin(version, TRUE) ELSE target
  /\ Notify(<<Ev("build", "complete")>>, "none", "")
  /\ IF produced \/ target.kind = "file" THEN resolve ELSE reject("build")
  /\ UNCHANGED <<run, version, platform, cache, tmpdir, broken, acq, clean,
                 stack, dl, imm, headComplete, setup, build, lines,
                 lastWritten, cancelAt>>
  /\ UNCHANGED <<call, ret>>

\* rename(buildBinPath, binPath), both the same path with the default
\* binary name: it fails only if `stack install` left no file there
Rename(produced) ==
  /\ pc = "rename" /\ imm = <<>>
  /\ target' = IF produced THEN Bin(version, TRUE) ELSE target
  /\ IF produced \/ target.kind = "file"
     THEN Notify(<<Ev("build", "complete")>>, "none", "") /\ resolve
     ELSE Silent /\ reject("build")
  /\ UNCHANGED <<run, version, platform, cache, tmpdir, broken, acq, clean,
                 stack, dl, imm, headComplete, setup, build, lines,
                 lastWritten, cancelAt>>
  /\ UNCHANGED <<call, ret>>

\* rimraf(cwd) has removed the build directory; nothing waits for it (its
\* callback is empty), so the step is taken once the run is over
RimrafDone ==
  /\ tmpdir = "removing" /\ pc = "done"
  /\ tmpdir' = "none"
  /\ Silent
  /\ UNCHANGED <<run, version, platform, pc, cache, target, errId, pend,
                 broken, acq, clean, stack, dl, imm, headComplete, setup,
                 build, lines, lastWritten, cancelAt>>
  /\ UNCHANGED <<call, ret>>

\* ------------------------------------------------- installPurescript, end

\* a cache cleaning whose failure is thrown into the flow
CleanDoneFatal(removed) ==
  /\ clean = "running" /\ pc = "awaitClean"
  /\ (removed => broken)
  /\ clean' = "done"
  /\ cache' = IF removed THEN NoEntry ELSE cache
  /\ Silent
  /\ pend' = IF broken /\ ~removed THEN "err" ELSE pend
  /\ errId' = IF broken /\ ~removed THEN "" ELSE errId
  /\ UNCHANGED <<run, version, platform, pc, target, tmpdir,
                 broken, acq, stack, dl, imm, headComplete, setup, build,
                 lines, lastWritten, cancelAt>>
  /\ UNCHANGED <<call, ret>>

\* cacache.rm.entry (only for a broken cache; its failure is ignored) and
\* cacache.verify have settled; nothing reads the cache before main awaits
\* cacheCleaning, so the step is taken there
CleanDone(removed) ==
  /\ clean = "running" /\ pc = "awaitClean"
  /\ (removed => broken)
  /\ clean' = "done"
  /\ cache' = IF removed THEN NoEntry ELSE cache
  /\ Silent
  /\ UNCHANGED <<run, version, platform, pc, target, tmpdir, errId, pend,
                 broken, acq, stack, dl, imm, headComplete, setup, build,
                 lines, lastWritten, cancelAt>>
  /\ UNCHANGED <<call, ret>>

\* a main that goes on to write the cache without `await cacheCleaning`
AfterCleanUnawaited ==
  /\ pc = "awaitClean"
  /\ IF pend = "ok"
     THEN /\ Notify(<<Ev("write-cache", "")>>, "none", "")
          /\ pc' = "writeCache"
          /\ UNCHANGED <<setup, build>>
     ELSE Finish(<<>>, "error", errId) /\ pc' = "done"
  /\ UNCHANGED <<run, version, platform, cache, target, tmpdir, errId, pend,
                 broken, acq, clean, stack, dl, imm, headComplete, lines,
                 lastWritten, cancelAt>>
  /\ UNCHANGED <<call, ret>>

\* main after `finally { await cacheCleaning }`: 'write-cache' after an
\* acquisition that resolved, observer.error after one that rejected
AfterClean ==
  /\ pc = "awaitClean" /\ clean = "done"
  /\ IF pend = "ok"
     THEN /\ Notify(<<Ev("write-cache", "")>>, "none", "")
          /\ pc' = "writeCache"
          /\ UNCHANGED <<setup, build>>
     ELSE Finish(<<>>, "error", errId) /\ pc' = "done"
  /\ UNCHANGED <<run, version, platform, cache, target, tmpdir, errId, pend,
                 broken, acq, clean, stack, dl, imm, headComplete, lines,
                 lastWritten, cancelAt>>
  /\ UNCHANGED <<call, ret>>

\* a cache write whose failure is thrown instead of reported
WriteCacheFatal(ok) ==
  /\ pc = "writeCache" /\ imm = <<>>
  /\ (ok => target.kind = "file")
  /\ pc' = "done"
  /\ IF ok
     THEN /\ cache' = putEntry(version, target)
          /\ lastWritten' = IF closed THEN lastWritten ELSE version
          /\ Finish(<<Ev("write-cache", "complete")>>, "complete", "")
     ELSE /\ Finish(<<>>, "error", "write-cache")
          /\ UNCHANGED <<cache, lastWritten>>
  /\ UNCHANGED <<run, version, platform, target, tmpdir, errId, pend, broken,
                 acq, clean, stack, dl, imm, headComplete, lines, cancelAt>>
  /\ UNCHANGED <<call, ret>>

\* lstat(binPath) and the pipeline into cacache.put.stream have settled;
\* main returns and observer.complete follows
WriteCache(ok) ==
  /\ pc = "writeCache" /\ imm = <<>>
  /\ (ok => target.kind = "file")
  /\ pc' = "done"
  /\ IF ok
     THEN /\ cache' = putEntry(version, target)
          /\ lastWritten' = IF closed THEN lastWritten ELSE version
          /\ Finish(<<Ev("write-cache", "complete")>>, "complete", "")
     ELSE /\ Finish(<<Ev("write-cache", "fail")>>, "complete", "")
          /\ UNCHANGED <<cache, lastWritten>>
  /\ UNCHANGED <<run, version, platform, target, tmpdir, errId, pend, broken,
                 acq, clean, stack, dl, imm, headComplete, lines, cancelAt>>
  /\ UNCHANGED <<call, ret>>

\* what the run was doing when the subscriber unsubscribed
phase ==
  IF dl.st \in {"fetch", "stream"} THEN dl.kind
  ELSE IF build = "running" THEN "build"
  ELSE "other"

\* the subscriber unsubscribes: the subscription closes and the cleanup
\* function aborts the signal; the abort listeners kill the subprocesses
\* and emit 'error' on the unpack stream
Cancel ==
  /\ pc \notin {"idle", "done"} /\ ~closed
  /\ closed' = TRUE /\ aborted' = TRUE
  /\ cancelAt' = phase
  /\ dl' = IF dl.st = "stream" THEN [dl EXCEPT !.st = "failed"] ELSE dl
  /\ setup' = abortChild(setup)
  /\ build' = abortChild(build)
  /\ UNCHANGED <<run, version, platform, pc, cache, target, tmpdir, events,
                 seen, result, errId, pend, broken, acq, clean, stack, imm,
                 headComplete, lines, lastWritten, consumer>>
  /\ UNCHANGED <<call, ret>>

Next ==
  \/ \E v \in Versions : Start(v)
  \/ SearchDone
  \/ \E ok \in BOOLEAN : RestoreDone(ok)
  \/ VerifyCache
  \/ \E ok \in BOOLEAN : FetchDone(ok)
  \/ \E name \in BinaryNames \cup SourceNames, size \in 0..MaxSize :
       DlEntry(name, size)
  \/ \E works \in BOOLEAN : DlChunk(works)
  \/ FireImm
  \/ DownloadOk
  \/ DownloadRejected
  \/ VerifyDl
  \/ \E r \in {"ok", "enoent", "error"} : StackSettle(r)
  \/ AwaitStack
  \/ Mkdtemp
  \/ SourceOk
  \/ SourceRejected
  \/ SetupLine
  \/ \E ok \in BOOLEAN : SetupExit(ok)
  \/ SetupClose
  \/ SetupAwaited
  \/ \E negligible \in BOOLEAN : BuildLine(negligible)
  \/ \E ok \in BOOLEAN : BuildExit(ok)
  \/ BuildAwaited
  \/ \E produced \in BOOLEAN : Rename(produced)
  \/ RimrafDone
  \/ \E removed \in BOOLEAN : CleanDone(removed)
  \/ AfterClean
  \/ \E ok \in BOOLEAN : WriteCache(ok)
  \/ Cancel

Spec == Init /\ [][Next]_vars

\* ------------------------------------------------------------- properties

Terminal(e) == e.sub \in {"complete", "fail"}
Has(es, stage, sub) ==
  \E i \in 1..Len(es) : es[i].id = stage /\ es[i].sub = sub
Cancelled == cancelAt # "-"
Matches == cache.present /\ cache.id = <<version, platform>>

\* the events of an installation served from the cache
HitEvents ==
  << [id |-> "search-cache", sub |-> "", found |-> TRUE],
     [id |-> "restore-cache", sub |-> "", found |-> FALSE],
     [id |-> "restore-cache", sub |-> "complete", found |-> FALSE],
     [id |-> "check-binary", sub |-> "", found |-> FALSE],
     [id |-> "check-binary", sub |-> "complete", found |-> FALSE] >>

RestoreFailed == [id |-> "restore-cache", sub |-> "fail", found |-> FALSE]
CheckFailed == [id |-> "check-binary", sub |-> "fail", found |-> FALSE]
Missed == [id |-> "search-cache", sub |-> "", found |-> FALSE]
HeadStart == [id |-> "head", sub |-> "", found |-> FALSE]

\* C1: with an entry whose id is that of the request, the acquisition is
\* entered only after the restore failed or the restored binary failed
\* verification although it does not work; otherwise the run, unless it is
\* cancelled or the target is a directory, delivers search-cache found=true,
\* restore-cache, restore-cache:complete, check-binary,
\* check-binary:complete and completes, and acquisition is never invoked.
\* (Until cacheCleaning is done the store is the one the run started with.)
C1_CacheHit ==
  /\ (clean = "running" /\ Matches) =>
       /\ Len(events) >= 3
       /\ \/ events[3] = RestoreFailed
          \/ Len(events) >= 5 /\ events[5] = CheckFailed /\ ~cache.bin.ok
  /\ (pc = "done" /\ acq = 0 /\ ~Cancelled /\ Matches
        /\ target.kind # "dir") =>
       Delivered = HitEvents /\ result = "complete"

C1_Witness ==
  pc = "done" /\ acq = 0 /\ result = "complete" /\ Delivered = HitEvents

\* C2: with an entry whose id differs from that of the request, a run that
\* gets past the lookup emits search-cache found=false and then head, with
\* no restore-cache event, starts the acquisition exactly once, and a run
\* that then completes ends with write-cache; an error after such a miss
\* carries the id of an acquisition stage.
C2_Mismatch ==
  /\ (run >= 1 /\ pc \notin {"idle", "search"} /\ clean # "done"
        /\ cache.present /\ ~Matches) =>
       \/ /\ acq = 1 /\ broken /\ Len(events) >= 2
          /\ events[1] = Missed /\ events[2] = HeadStart
          /\ \A i \in 1..Len(events) : events[i].id # "restore-cache"
       \/ pc = "done" /\ acq = 0 /\ events = <<>>
            /\ (target.kind = "dir" \/ Cancelled)
  /\ (Len(events) >= 1 /\ events[1] = Missed) =>
       /\ acq = 1
       /\ result = "error" =>
            errId \in {"head", "check-stack", "download-source", "setup",
                       "build"}
       /\ result = "complete" =>
            /\ Has(events, "write-cache", "")
            /\ events[Len(events)].id = "write-cache"
            /\ Terminal(events[Len(events)])

C2_Witness ==
  /\ result = "complete" /\ broken /\ acq = 1
  /\ Len(events) >= 1 /\ events[1] = Missed
  /\ Has(events, "write-cache", "complete")

\* C3: the entry in the store carries the id of the version of the last
\* installation whose write-cache:complete was emitted to the subscriber.
C3_EntryOfLastWrite ==
  cache.present => cache.id = <<lastWritten, platform>>

CacheFailedAt(i) ==
  \/ events[i] = RestoreFailed
  \/ i = 5 /\ events[5] = CheckFailed /\ events[1].found

CacheFailed == \E i \in 1..Len(events) : CacheFailedAt(i)

C5_CompleteVerified ==
  result = "complete" =>
    target.kind = "file" /\ target.ok /\ target.ver = version

\* C6: once a run that was cancelled while the prebuilt or the source
\* archive was being downloaded is over, no file is at the target path and
\* no build directory is left (stated for the runs that restored nothing
\* from the cache, so that a file there comes from the download).
C6_NoLeftovers ==
  (pc = "done" /\ cancelAt \in {"binary", "source"}
     /\ ~Has(events, "restore-cache", "") /\ tmpdir # "removing") =>
    target.kind = "none" /\ tmpdir = "none"

\* the bare events of the stage of es[i] since that stage's last terminal
\* event before i
StartsBefore(es, i) ==
  Cardinality({j \in 1..(i - 1) :
    /\ es[j].id = es[i].id /\ es[j].sub = ""
    /\ \A k \in j..(i - 1) : ~(es[k].id = es[i].id /\ Terminal(es[k]))})

Followed(es, i) ==
  \E j \in (i + 1)..Len(es) : es[j].id = es[i].id /\ Terminal(es[j])

\* the stages that are announced by one event of their own
ExplicitStages ==
  {"restore-cache", "check-binary", "head", "check-stack", "write-cache"}

\* the stages whose bare events are byte counters or output lines
DataStages == {"download-binary", "download-source", "setup", "build"}

\* C7 (as amended): every ':complete' or ':fail' event of restore-cache,
\* check-binary, head, check-stack and write-cache is preceded by exactly
\* one start event of that stage since the stage's previous terminal event.
C7_OneStart ==
  \A i \in 1..Len(events) :
    (Terminal(events[i]) /\ events[i].id \in ExplicitStages) =>
      StartsBefore(events, i) = 1

C7_Witness ==
  \E i, j \in 1..Len(events) :
    /\ i < j /\ events[i] = CheckFailed
    /\ events[j].id = "check-binary" /\ events[j].sub = "complete"

\* C7 (as stated, read in its weakest sense): every ':complete' or ':fail'
\* event of any stage is preceded by at least one bare event of that stage.
C7_EveryStageStarts ==
  \A i \in 1..Len(events) :
    Terminal(events[i]) => StartsBefore(events, i) >= 1

\* C8 (as amended): in a run that is over and was not cancelled, every
\* start event of restore-cache, check-binary, check-stack and write-cache
\* is followed by a ':complete' or ':fail' event of that stage; a terminal
\* failure ends the run with an error that carries the id of its stage,
\* and that stage has no ':complete' or ':fail' event.
C8_TerminalOrError ==
  /\ (pc = "done" /\ ~Cancelled) =>
       \A i \in 1..Len(events) :
         (events[i].sub = "" /\ events[i].id \in
            {"restore-cache", "check-binary", "check-stack", "write-cache"})
           => Followed(events, i)
  /\ (result = "error" /\ errId # "") =>
       /\ errId \in {"head", "check-stack", "download-source", "setup",
                     "build"}
       /\ \A i \in 1..Len(events) :
            events[i].id = errId => ~Terminal(events[i])

C8_Witness ==
  result = "error" /\ errId = "setup" /\ Has(events, "setup", "")

\* C8 (as stated): in a run that is over and was not cancelled, every
\* start event of a stage other than search-cache is followed by a
\* ':complete' or ':fail' event of that stage.
C8_EveryStageEnds ==
  (pc = "done" /\ ~Cancelled) =>
    \A i \in 1..Len(events) :
      (events[i].sub = "" /\ events[i].id # "search-cache")
        => Followed(events, i)

\* C9: the subscriber receives no event of download-binary,
\* download-source, setup or build after that stage's ':complete' or
\* ':fail' event.
C9_NothingAfterTerminal ==
  \A i, j \in 1..seen :
    (i < j /\ Delivered[i].id \in DataStages /\ Terminal(Delivered[i]))
      => Delivered[j].id # Delivered[i].id

\* C10: the consumer's getCurrentTask lookup never runs past the last
\* task group.
C10_LookupInRange == ~consumer.crash

\* the number of events of es that are the start of the given stage
Starts(es, stage) ==
  Cardinality({i \in 1..Len(es) : es[i].id = stage /\ es[i].sub = ""})

\* C11: in one installation the acquisition is started at most once; after
\* a miss on an entry of another id, after restore-cache:fail and after
\* check-binary:fail of the restored binary it has been started exactly
\* once; once it is started the flow is never again in the cache search, the
\* restore or the verification of the restored binary, and head is
\* announced once.
C11_AcquireOnce ==
  /\ acq <= 1
  /\ Starts(events, "head") = acq
  /\ Starts(events, "search-cache") <= 1
  /\ acq = 1 => pc \notin {"search", "restore", "verifyCache"}
  /\ (CacheFailed \/ (Len(events) >= 1 /\ events[1] = Missed)) => acq = 1

C11_Witness ==
  pc = "done" /\ acq = 1 /\ CacheFailed /\ result = "error" /\ errId = "build"

\* C12: once write-cache is announced the run never ends with an error; a
\* run that is over ends with write-cache:complete or write-cache:fail, and
\* unless it was cancelled a failed cache write is delivered as
\* write-cache:fail followed by completion.
C12_WriteFailureNotFatal ==
  /\ Has(events, "write-cache", "") => result # "error"
  /\ (pc = "done" /\ Has(events, "write-cache", "")) =>
       /\ events[Len(events)].id = "write-cache"
       /\ Terminal(events[Len(events)])
  /\ (Has(events, "write-cache", "fail") /\ ~Cancelled) =>
       /\ result = "complete"
       /\ Delivered = events

C12_Witness ==
  /\ result = "complete" /\ Has(events, "write-cache", "fail")
  /\ target.kind = "file" /\ target.ok

\* C13: a failure of the prebuilt path before the binary entry was seen
\* never ends the installation: no run ends with an error of the head
\* stage.
C13_HeadFailureFallsBack == result = "error" => errId # "head"

NoPrebuilt ==
  platform[1] \notin {"linux", "darwin", "win32"} \/ platform[2] # "x64"

PlatformCode ==
  IF platform[1] \notin {"linux", "darwin", "win32"}
  THEN "ERR_UNSUPPORTED_PLATFORM" ELSE "ERR_UNSUPPORTED_ARCH"

BuildIds == {"check-stack", "download-source", "setup", "build"}

\* C14: on a platform other than linux, darwin and win32, or on an
\* architecture other than x64, the prebuilt download is never requested: it
\* fails at once with ERR_UNSUPPORTED_PLATFORM or ERR_UNSUPPORTED_ARCH, head
\* is followed by head:fail and by nothing of the prebuilt download, and a
\* run that is not cancelled goes on to the toolchain check, so that its
\* failure, if any, is one of check-stack or of the source build.
C14_UnsupportedFallsBack ==
  NoPrebuilt =>
    /\ dl.kind = "binary" => dl.st = PlatformCode
    /\ \A i \in 1..Len(events) :
         /\ events[i].id \notin {"download-binary", "check-binary"}
            \/ (events[1].found /\ i <= 5)
         /\ ~(events[i].id = "head" /\ events[i].sub = "complete")
         /\ (events[i] = HeadStart /\ i < Len(events)) =>
              events[i + 1] = [HeadStart EXCEPT !.sub = "fail"]
    /\ (acq = 1 /\ pc # "download" /\ ~Cancelled) =>
         /\ Has(events, "head", "fail")
         /\ pc = "awaitStack" \/ stack # "pending"
         /\ (stack = "ok" /\ pc # "awaitStack") =>
              Has(events, "check-stack", "complete")
         /\ result = "error" => errId \in BuildIds

C14_Witness ==
  /\ platform = <<"linux", "ia32">> /\ Has(events, "head", "fail")
  /\ Has(events, "build", "complete") /\ result = "complete"

HeadCompleteAt(i) == events[i].id = "head" /\ events[i].sub = "complete"

DownloadFailAt(i) == events[i].id = "download-binary" /\ events[i].sub = "fail"

\* C15: once head:complete is out, a failure of the prebuilt download is
\* answered with download-binary:fail, after which the download neither
\* completes nor is verified, and with the source build: unless the run is
\* cancelled the toolchain check follows, and no run fails with the id
\* download-binary.
C15_DownloadFailureFallsBack ==
  /\ result = "error" => errId # "download-binary"
  /\ \A i \in 1..Len(events) : DownloadFailAt(i) =>
       /\ \E j \in 1..(i - 1) : HeadCompleteAt(j)
       /\ \A k \in (i + 1)..Len(events) :
            ~(events[k].id \in {"download-binary", "check-binary"}
              /\ Terminal(events[k]))
       /\ ~Cancelled =>
            /\ pc = "awaitStack" \/ stack # "pending"
            /\ (stack = "ok" /\ pc # "awaitStack") =>
                 \E k \in (i + 1)..Len(events) :
                   events[k].id = "check-stack" /\ events[k].sub = ""
            /\ result = "error" => errId \in BuildIds
  /\ (headComplete /\ acq = 1 /\ ~Cancelled
      /\ pc \notin {"download", "verifyDl"}
      /\ ~Has(events, "download-binary", "complete")) =>
       Has(events, "download-binary", "fail")

C15_Witness ==
  /\ result = "complete" /\ Has(events, "download-binary", "fail")
  /\ Has(events, "build", "complete") /\ ~Cancelled

DownloadedAt(i) ==
  events[i].id = "download-binary" /\ events[i].sub = "complete"

CheckFailAfter(i) ==
  \E k \in (i + 1)..Len(events) :
    events[k].id = "check-binary" /\ events[k].sub = "fail"

\* C16: when the downloaded binary cannot be run with success, the answer is
\* check-binary:fail and the source build: an uncancelled run goes on to the
\* toolchain check, and no run fails with the id check-binary; a downloaded
\* binary that passed is a file that works.
C16_VerifyFailureFallsBack ==
  /\ result = "error" => errId # "check-binary"
  /\ \A i \in 1..Len(events) : DownloadedAt(i) =>
       /\ (pc # "verifyDl" /\ ~CheckFailAfter(i) /\ tmpdir = "none"
           /\ ~Has(events, "build", "complete")) =>
            (target.kind = "file" /\ target.ok)
       /\ (CheckFailAfter(i) /\ ~Cancelled) =>
            /\ ~\E k \in (i + 1)..Len(events) :
                  events[k].id = "check-binary" /\ events[k].sub = "complete"
            /\ pc = "awaitStack" \/ stack # "pending"
            /\ (stack = "ok" /\ pc # "awaitStack") =>
                 \E k \in (i + 1)..Len(events) :
                   events[k].id = "check-stack" /\ events[k].sub = ""
            /\ result = "error" => errId \in BuildIds

C16_Witness ==
  /\ \E i \in 1..Len(events) : DownloadedAt(i) /\ CheckFailAfter(i)
  /\ result = "complete" /\ Has(events, "build", "complete") /\ ~Cancelled

BuildStageStarted ==
  \/ \E i \in 1..Len(events) : events[i].id \in BuildIds
  \/ dl.kind = "source" \/ setup # "none" \/ build # "none"

FellBack ==
  \/ Has(events, "head", "fail") \/ Has(events, "download-binary", "fail")
  \/ \E i \in 1..Len(events) : DownloadedAt(i) /\ CheckFailAfter(i)

\* C17, as it is stated: the error of a run that fails at check-stack carries
\* INSTALL_URL.
C17_FatalWithUrl ==
  (result = "error" /\ errId = "check-stack") => stackError.INSTALL_URL

\* C17 (as amended): when `stack` is not found, or its version query fails
\* or times out, a run that fell back and is not cancelled ends with the
\* error of id check-stack, and no stage of the source build is started;
\* the error carries INSTALL_URL exactly when `stack` was not found.
C17_StackFailureIsFatal ==
  /\ (stack \in {"enoent", "error"} /\ acq = 1) => ~BuildStageStarted
  /\ (stack \in {"enoent", "error"} /\ FellBack /\ ~Cancelled
      /\ pc \notin {"awaitStack"}) =>
       /\ pend = "err" /\ errId = "check-stack"
       /\ pc = "done" => (result = "error" \/ consumer.crash)
  /\ (result = "error" /\ errId = "check-stack") =>
       /\ stack \in {"enoent", "error"}
       /\ stackError.id = errId
       /\ stackError.INSTALL_URL <=> stack = "enoent"

C17_Witness ==
  /\ result = "error" /\ errId = "check-stack" /\ stack = "enoent"
  /\ Has(events, "check-binary", "fail") /\ ~Cancelled

InTry == pc \in {"dlSource", "awaitSetup", "build"}

QueryAlive == stack = "pending"

VerifyAlive == pc \in {"verifyCache", "verifyDl"} /\ target.kind = "file"

\* C19: once the signal is aborted, no subprocess of the run is alive (the
\* version query of `stack`, the run of the binary with --version,
\* `stack setup`, `stack install`) and no archive is being streamed.
C19_CancelStopsAll ==
  aborted =>
    /\ ~QueryAlive /\ ~VerifyAlive
    /\ setup # "running" /\ build # "running"
    /\ dl.st # "stream"

CancelWins(s, t) ==
  /\ (s \in Unsettled /\ ~aborted /\ aborted') =>
       t = (IF s = "running" THEN "aborted"
            ELSE IF s = "exit0" THEN "abortedExit0" ELSE "abortedExitN")
  /\ (s \in {"aborted", "abortedExit0", "abortedExitN"} /\ run' = run) =>
       t = s
  /\ t = "fail" => s \in {"fail", "exitN"}

\* C20: when the signal is aborted while `stack setup` or `stack install`
\* runs, or after it has exited but before 'close' has settled the call, the
\* call is rejected by the abort listener, and it stays so: the exit-status
\* error is the outcome only of a call that 'close' settles with a code
\* other than 0.
C20_CancelBeatsExitStatus ==
  [][CancelWins(setup, setup') /\ CancelWins(build, build')]_vars

C20_Witness ==
  /\ pc = "done" /\ aborted /\ build = "abortedExitN" /\ Cancelled
  /\ pend = "err" /\ errId = "build"

\* ================================================================ paths
\* A path is the sequence of the pieces of its string: "/" and "." stand for
\* themselves, any other piece for a run of other characters, so that a
\* prefix of the sequence is a prefix of the string.

\* pieces of one path
MaxPath == 5

PathTokens ==
  {"/", ".", "x", "md", "appveyor", "gitignore", "purs", "exe"}

\* the paths of archive entries: relative, without empty components
Paths ==
  UNION {{p \in [1..n -> PathTokens] :
            /\ p[1] # "/"
            /\ \A i \in 1..(n - 1) : ~(p[i] = "/" /\ p[i + 1] = "/")} :
         n \in 1..MaxPath}

LastIndex(p, t) ==
  IF \E i \in 1..Len(p) : p[i] = t
  THEN CHOOSE i \in 1..Len(p) : p[i] = t /\ \A j \in (i + 1)..Len(p) : p[j] # t
  ELSE 0

FirstIndex(p, t) ==
  IF \E i \in 1..Len(p) : p[i] = t
  THEN CHOOSE i \in 1..Len(p) : p[i] = t /\ \A j \in 1..(i - 1) : p[j] # t
  ELSE 0

\* path.basename(p): the last component, a trailing separator ignored
basename(p) ==
  LET q == IF Len(p) > 1 /\ p[Len(p)] = "/" THEN SubSeq(p, 1, Len(p) - 1)
           ELSE p
  IN SubSeq(q, LastIndex(q, "/") + 1, Len(q))

\* path.basename(p, '.exe')
basenameExe(p) ==
  LET b == basename(p)
      n == Len(b)
  IN IF n > 2 /\ b[n - 1] = "." /\ b[n] = "exe" THEN SubSeq(b, 1, n - 2)
     ELSE b

\* path.extname(p): from the last "." of the base name, which must not be
\* its first character
extname(p) ==
  LET b == basename(p)
      i == LastIndex(b, ".")
  IN IF i <= 1 \/ b = <<".", ".">> THEN <<>> ELSE SubSeq(b, i, Len(b))

\* String.prototype.startsWith
startsWith(p, pre) ==
  Len(pre) <= Len(p) /\ SubSeq(p, 1, Len(pre)) = pre

\* path.split(sep)[0]
topLevelDir(p) ==
  LET i == FirstIndex(p, "/")
  IN IF i = 0 THEN p ELSE SubSeq(p, 1, i - 1)

\* path.join(a, b) of two plain names; the result is normalized, which
\* drops an empty or "." first name
join(a, b) == IF a = <<>> \/ a = <<".">> THEN b ELSE a \o <<"/">> \o b

ignoredExtensions == {<<".", "md">>, <<".", "yml">>}
ignoredDirectoryNames == {<<"appveyor">>, <<"psc-ide">>, <<"travis">>}
ignoredFilenames ==
  {<<".", "gitignore">>, <<"logo", ".", "png">>, <<"make_release_notes">>}

\* the filter buildPurescript gives dlTar for the source archive
sourceEntryFilter(p) ==
  /\ extname(p) \notin ignoredExtensions
  /\ \A d \in ignoredDirectoryNames :
       ~startsWith(p, join(topLevelDir(p), d))
  /\ basename(p) \notin ignoredFilenames

\* the filter downloadOrBuildPurescript gives dlTar for the binary archive
binaryEntryFilter(p) == basenameExe(p) = <<"purs">>

\* the workflow at rest, while a function is applied on its own
Idle ==
  /\ run = 0 /\ version = "A" /\ platform = <<"linux", "x64">>
  /\ pc = "idle" /\ cache = NoEntry /\ target = NoFile /\ tmpdir = "none"
  /\ events = <<>> /\ seen = 0 /\ closed = FALSE /\ aborted = FALSE
  /\ result = "none" /\ errId = "" /\ pend = "" /\ broken = FALSE
  /\ acq = 0 /\ clean = "idle" /\ stack = "idle" /\ dl = NoDl
  /\ imm = <<>> /\ headComplete = FALSE
  /\ setup = "none" /\ build = "none" /\ lines = 0
  /\ lastWritten = "-" /\ cancelAt = "-" /\ consumer = NoConsumer

FilterInit ==
  /\ Idle
  /\ call \in [fn : {"filter"}, archive : {"source", "binary"}, path : Paths]
  /\ ret = NoCall

\* tar calls the filter with the path of an entry
Filter ==
  /\ call.fn = "filter" /\ ret = NoCall
  /\ ret' = [fn |-> "filter",
             extracted |-> IF call.archive = "source"
                           THEN sourceEntryFilter(call.path)
                           ELSE binaryEntryFilter(call.path)]
  /\ UNCHANGED <<flow, call>>

FilterNext == Filter

FilterSpec == FilterInit /\ [][FilterNext]_vars

\* the components of a path
RECURSIVE Components(_)
Components(p) ==
  IF p = <<>> THEN <<>>
  ELSE LET i == FirstIndex(p, "/")
       IN IF i = 0 THEN <<p>>
          ELSE <<SubSeq(p, 1, i - 1)>> \o Components(SubSeq(p, i + 1, Len(p)))

UnderIgnoredDir(p) ==
  /\ Len(Components(p)) >= 2
  /\ Components(p)[2] \in {<<"appveyor">>, <<"psc-ide">>, <<"travis">>}

Filtered == ret.fn = "filter"

\* C21: a source entry is extracted exactly if its extension is neither .md
\* nor .yml, it is not the directory appveyor, psc-ide or travis below the
\* top-level directory nor inside it, and its base name is none of
\* .gitignore, logo.png, make_release_notes; a binary entry exactly if its
\* base name without .exe is purs.
C21_FilterAsStated ==
  Filtered =>
    (ret.extracted <=>
       IF call.archive = "source"
       THEN /\ extname(call.path) \notin {<<".", "md">>, <<".", "yml">>}
            /\ ~UnderIgnoredDir(call.path)
            /\ basename(call.path) \notin
                 {<<".", "gitignore">>, <<"logo", ".", "png">>,
                  <<"make_release_notes">>}
       ELSE basenameExe(call.path) = <<"purs">>)

CleaningEnds == clean = "running" /\ clean' = "done"

\* C22: a broken cache (an entry of another id, a failed restore, a restored
\* binary that fails verification) starts the cache cleaning, which removes
\* the entry or, failing, leaves the store as it is; the end of the cleaning
\* emits no event and changes nothing of the flow, and what follows depends
\* on how the acquisition settled only: write-cache after success, the
\* acquisition's error after failure.
C22_CleaningIsSilent ==
  /\ []((acq = 1 /\ CacheFailed) => broken)
  /\ [](broken => (acq = 1 /\ (CacheFailed \/ events[1] = Missed)))
  /\ [][(pc = "search" /\ pc' = "download") =>
          /\ cache.present => cache.id # <<version, platform>>
          /\ broken' <=> cache.present]_vars
  /\ []((broken \/ acq = 1) => clean # "idle")
  /\ [][CleaningEnds =>
          /\ UNCHANGED <<events, seen, result, closed, aborted, consumer,
                         errId, pend, pc, target>>
          /\ cache' \in {cache, NoEntry}
          /\ ~broken => cache' = cache]_vars
  /\ [][(pc = "awaitClean" /\ pc' # pc) =>
          /\ clean = "done"
          /\ pend = "ok" =>
               (pc' = "writeCache" /\ events' = Append(events, Ev("write-cache", "")))
          /\ pend = "err" =>
               (pc' = "done" /\ events' = events
                /\ (closed \/ result' = "error"))]_vars

C22_Witness ==
  /\ result = "complete" /\ broken /\ clean = "done" /\ run = 1
  /\ version = "B" /\ cache.present /\ cache.id[1] = "A"

\* ============================================== the arguments of `stack`

\* arguments the caller gives
MaxArgs == 2

\* config.js: the flags that go to `stack install` only
supportedBuildFlags ==
  {"--dry-run", "--pedantic", "--fast", "--only-snapshot",
   "--only-dependencies", "--only-configure", "--trace", "--profile",
   "--no-strip", "--coverage", "--no-run-tests", "--no-run-benchmarks"}

\* what a caller may pass in `args`
ArgFlags ==
  {"--fast", "--dry-run", "--verbose", "--local-bin-path=/x",
   "--allow-different-user", "--no-allow-different-user"}

ArgLists == UNION {[1..n -> ArgFlags] : n \in 0..MaxArgs}

Range(sq) == {sq[i] : i \in 1..Len(sq)}

\* a test for the flag that misses its '=<dir>' form
isLocalBinPathFlagExact(a) == a = "--local-bin-path"

\* flag.startsWith('--local-bin-path')
isLocalBinPathFlag(a) == a \in {"--local-bin-path", "--local-bin-path=/x"}

isInstallOnly(a) == a \in supportedBuildFlags
isShared(a) == a \notin supportedBuildFlags

\* args.filter(...): the flags that stay, and installArgs with the pushed ones
defaultArgs(args) == SelectSeq(args, isShared)

installArgs(args) ==
  <<"install", "--local-bin-path=<cwd>", "--flag=purescript:RELEASE">>
    \o SelectSeq(args, isInstallOnly)

\* setup written after the sub-command's name
setupArgsAfter(args) == <<"setup">> \o defaultArgs(args)

setupArgs(args) == defaultArgs(args) \o <<"setup">>

buildArgs(args) == defaultArgs(args) \o installArgs(args)

\* a runner that prepends the flag whatever it is given
spawnArgsAlways(os, args) == <<"--allow-different-user">> \o args

\* spawnStack: the argument list the subprocess is spawned with
spawnArgs(os, args) ==
  IF /\ os # "win32"
     /\ "--allow-different-user" \notin Range(args)
     /\ "--no-allow-different-user" \notin Range(args)
  THEN <<"--allow-different-user">> \o args
  ELSE args

ArgsInit ==
  /\ Idle
  /\ call \in [fn : {"buildPurescript"}, os : {"linux", "win32"},
               args : ArgLists]
  /\ ret = NoCall

\* buildPurescript({args}) up to `await mkdtemp(...)`
ArgsCall ==
  /\ call.fn = "buildPurescript" /\ ret = NoCall
  /\ ret' = [fn |-> "buildPurescript",
             st |-> IF \E a \in Range(defaultArgs(call.args)) :
                         isLocalBinPathFlag(a)
                    THEN "ERR_INVALID_OPT_VALUE" ELSE "mkdtemp",
             tmp |-> FALSE, spawned |-> <<>>]
  /\ UNCHANGED <<flow, call>>

\* mkdtemp has created the build directory
ArgsMkdtemp ==
  /\ ret.fn = "buildPurescript" /\ ret.st = "mkdtemp"
  /\ ret' = [ret EXCEPT !.st = "download", !.tmp = TRUE]
  /\ UNCHANGED <<flow, call>>

\* setup(): spawnStack({args: setupArgs})
ArgsSetup ==
  /\ ret.fn = "buildPurescript" /\ ret.st = "download"
  /\ ret' = [ret EXCEPT
       !.st = "setup",
       !.spawned = Append(@, [args |-> setupArgs(call.args),
                              command |-> spawnArgs(call.os,
                                                    setupArgs(call.args))])]
  /\ UNCHANGED <<flow, call>>

\* spawnStack({args: buildArgs})
ArgsInstall ==
  /\ ret.fn = "buildPurescript" /\ ret.st = "setup"
  /\ ret' = [ret EXCEPT
       !.st = "build",
       !.spawned = Append(@, [args |-> buildArgs(call.args),
                              command |-> spawnArgs(call.os,
                                                    buildArgs(call.args))])]
  /\ UNCHANGED <<flow, call>>

ArgsNext == ArgsCall \/ ArgsMkdtemp \/ ArgsSetup \/ ArgsInstall

ArgsSpec == ArgsInit /\ [][ArgsNext]_vars

SharedFlags == SelectSeq(call.args, isShared)
InstallOnlyFlags == SelectSeq(call.args, isInstallOnly)

\* cmd is body, with or without --allow-different-user in front
Runs(cmd, body) ==
  cmd = body \/ cmd = <<"--allow-different-user">> \o body

SetupSpawned == ret.fn = "buildPurescript" /\ Len(ret.spawned) >= 1
InstallSpawned == ret.fn = "buildPurescript" /\ Len(ret.spawned) >= 2

\* C23, as it is stated: the shared flags follow the name of the
\* sub-command.
C23_FlagsAfterSubcommand ==
  /\ SetupSpawned =>
       Runs(ret.spawned[1].command, <<"setup">> \o SharedFlags)
  /\ InstallSpawned =>
       Runs(ret.spawned[2].command,
            <<"install", "--local-bin-path=<cwd>", "--flag=purescript:RELEASE">>
              \o SharedFlags \o InstallOnlyFlags)

\* C23 (as amended): `stack` is run with
\* [--allow-different-user] [...sharedFlags] setup and then with
\* [--allow-different-user] [...sharedFlags] install --local-bin-path=<cwd>
\* --flag=purescript:RELEASE [...installOnlyFlags], in that order.
C23_FlagsBeforeSubcommand ==
  /\ SetupSpawned =>
       Runs(ret.spawned[1].command, SharedFlags \o <<"setup">>)
  /\ InstallSpawned =>
       Runs(ret.spawned[2].command,
            SharedFlags
              \o <<"install", "--local-bin-path=<cwd>",
                   "--flag=purescript:RELEASE">>
              \o InstallOnlyFlags)

C23_Witness ==
  /\ InstallSpawned
  /\ call.args = <<"--fast", "--verbose">> /\ call.os = "linux"
  /\ ret.spawned[1].command =
       <<"--allow-different-user", "--verbose", "setup">>
  /\ ret.spawned[2].command =
       <<"--allow-different-user", "--verbose", "install",
         "--local-bin-path=<cwd>", "--flag=purescript:RELEASE", "--fast">>

Count(sq, x) == Cardinality({i \in 1..Len(sq) : sq[i] = x})

NeedsFlag(os, args) ==
  /\ os # "win32"
  /\ \A i \in 1..Len(args) :
       args[i] \notin {"--allow-different-user", "--no-allow-different-user"}

\* C24, as it is stated: no spawned command has --allow-different-user
\* twice.
C24_NeverTwice ==
  ret.fn = "buildPurescript" =>
    \A i \in 1..Len(ret.spawned) :
      Count(ret.spawned[i].command, "--allow-different-user") <= 1

\* C24 (as amended): spawnStack puts --allow-different-user in front of the
\* argument list exactly when the platform is not win32 and the list has
\* neither that flag nor --no-allow-different-user; otherwise the list is
\* passed as it is, so that spawnStack never adds the flag to a list that
\* has it: the command has it once if the list has none and it is added,
\* and as often as the caller's list otherwise.
C24_AllowDifferentUser ==
  ret.fn = "buildPurescript" =>
    \A i \in 1..Len(ret.spawned) :
      LET e == ret.spawned[i]
      IN IF NeedsFlag(call.os, e.args)
         THEN /\ e.command = <<"--allow-different-user">> \o e.args
              /\ Count(e.command, "--allow-different-user") = 1
         ELSE /\ e.command = e.args
              /\ Count(e.command, "--allow-different-user") =
                   Count(call.args, "--allow-different-user")

C24_Witness ==
  /\ SetupSpawned /\ call.os = "linux" /\ call.args = <<"--verbose">>
  /\ ret.spawned[1].command =
       <<"--allow-different-user", "--verbose", "setup">>

AllowListed(a) ==
  a \in {"--dry-run", "--pedantic", "--fast", "--only-snapshot",
         "--only-dependencies", "--only-configure", "--trace", "--profile",
         "--no-strip", "--coverage", "--no-run-tests", "--no-run-benchmarks"}

BinPathGiven ==
  \E i \in 1..Len(call.args) :
    ~AllowListed(call.args[i]) /\ call.args[i] = "--local-bin-path=/x"

\* C30: an argument of the install-only list goes to `stack install` and
\* not to `stack setup`, any other argument goes to both, and an argument
\* outside the list that starts with --local-bin-path makes buildPurescript
\* fail with ERR_INVALID_OPT_VALUE before the directory is made and before
\* anything is spawned.
C30_ArgsRouting ==
  ret.fn = "buildPurescript" =>
    /\ BinPathGiven <=> ret.st = "ERR_INVALID_OPT_VALUE"
    /\ BinPathGiven => (~ret.tmp /\ ret.spawned = <<>>)
    /\ SetupSpawned =>
         \A i \in 1..Len(call.args) :
           AllowListed(call.args[i]) <=>
             call.args[i] \notin Range(ret.spawned[1].command)
    /\ InstallSpawned =>
         \A i \in 1..Len(call.args) :
           call.args[i] \in Range(ret.spawned[2].command)

C30_Witness ==
  /\ InstallSpawned /\ call.args = <<"--dry-run", "--verbose">>
  /\ "--dry-run" \notin Range(ret.spawned[1].command)
  /\ "--dry-run" \in Range(ret.spawned[2].command)
  /\ "--verbose" \in Range(ret.spawned[1].command)
  /\ "--verbose" \in Range(ret.spawned[2].command)

\* ------------------------------------------------ the source build's order

At(stage, sub) ==
  IF Has(events, stage, sub)
  THEN CHOOSE i \in 1..Len(events) :
         /\ events[i].id = stage /\ events[i].sub = sub
         /\ \A j \in 1..(i - 1) : ~(events[j].id = stage /\ events[j].sub = sub)
  ELSE 0

\* C25: `stack install` is spawned only once the source download is
\* complete and `stack setup` has closed with code 0, at the step that emits
\* setup:complete; download-source:complete, setup:complete and the output
\* of the build come in that order; after a stage of the pipeline has failed
\* nothing is spawned, setup:complete needs the download and every build
\* event needs setup:complete.
C25_StagesInOrder ==
  /\ [](build # "none" =>
          /\ setup = "ok"
          /\ 0 < At("download-source", "complete")
          /\ At("download-source", "complete") < At("setup", "complete"))
  /\ [](Has(events, "setup", "complete") =>
          (0 < At("download-source", "complete")
           /\ At("download-source", "complete") < At("setup", "complete")))
  /\ [](\A i \in 1..Len(events) : events[i].id = "build" =>
          (0 < At("setup", "complete") /\ At("setup", "complete") < i))
  /\ []((pend = "err" /\ errId \in {"download-source", "setup"}) =>
          (build = "none" /\ ~Has(events, "build", "")
           /\ ~Has(events, "build", "complete")))
  /\ []((pend = "err" /\ errId = "download-source") =>
          ~Has(events, "setup", "complete"))
  /\ [][(build = "none" /\ build' # "none" /\ run' = run) =>
          /\ pc = "awaitSetup" /\ setup = "ok" /\ build' = "running"
          /\ events' = Append(events, Ev("setup", "complete"))]_vars
  /\ [][(pend = "err" /\ run' = run) =>
          /\ setup = "none" => setup' = "none"
          /\ build = "none" => build' = "none"]_vars

\* `stack setup` is spawned at this step
SetupSpawns == setup = "none" /\ setup' = "running"

\* C26: within a run `stack setup` is spawned at most once: the subprocess
\* starts only from the state in which it was never spawned and that state
\* never comes back, whether the early call (stack.yaml extracted), the late
\* call (download complete) or both are made; the late call after an early
\* one spawns nothing; a run that emits setup:complete has spawned it.
C26_SetupOnce ==
  /\ [][(run' = run /\ setup' = "running" /\ setup # "running") =>
          SetupSpawns]_vars
  /\ [][(run' = run /\ setup # "none") => setup' # "none"]_vars
  /\ [][(pc = "dlSource" /\ pc' = "awaitSetup" /\ setup # "none") =>
          UNCHANGED <<setup, lines>>]_vars
  /\ [](Has(events, "setup", "complete") => setup = "ok")

\* setup was started early, has closed, and the download completed after it
C26_Witness ==
  /\ Has(events, "setup", "complete")
  /\ \E i \in 1..Len(events) :
       /\ events[i].id = "setup" /\ events[i].sub = ""
       /\ i < At("download-source", "complete")

\* the step reports an entry of the source archive without remaining bytes
ReportsDone(name) ==
  /\ \E k \in 1..2 :
       events' = events \o progressEvents("source", k)
  /\ \/ dl.st = "stream" /\ dl.kind = "source" /\ dl.cur = name
        /\ dl.rem = 1 /\ dl'.rem = 0
     \/ imm # <<>> /\ Head(imm) = [kind |-> "source", name |-> name]
        /\ imm' = Tail(imm)

\* the step completes the source download
DownloadCompletes ==
  /\ pc = "dlSource" /\ pc' = "awaitSetup"
  /\ events' = Append(events, Ev("download-source", "complete"))

MaxWords == 3

\* a line of stderr is a sequence of words, separated by one space
Words == {"WARNING:", "warning:", "filepath wildcard", "Installation path",
          "Compiling", "x"}
OutputLines == UNION {[1..n -> Words] : n \in 1..MaxWords}

\* the `i` flag: letters compare without case
lower(w) == IF w = "WARNING:" THEN "warning:" ELSE w

\* negligibleLineRe.test(line):
\* /^WARNING: (?:filepath wildcard|(?:File|Directory) listed|Installation
\* path|Specified pattern) .*/ui
negligibleLineTest(line) ==
  /\ Len(line) >= 3
  /\ lower(line[1]) = "warning:"
  /\ line[2] \in {"filepath wildcard", "File listed", "Directory listed",
                  "Installation path", "Specified pattern"}

\* the handler spawnStack calls with a line of `stack setup`
setupProgress(line) ==
  <<[id |-> "setup", output |-> line]>>

\* the handler spawnStack calls with a line of `stack install`
buildProgress(line) ==
  IF negligibleLineTest(line) THEN <<>>
  ELSE <<[id |-> "build", output |-> line]>>

\* the error of a subprocess that closed with a code other than 0: the
\* lines of its message, each with its text and its line break
exitError == <<[text |-> <<"Unexpected", "exit", "code:", "1">>, eol |-> ""]>>

\* message.replace(new RegExp(`${negligibleLineRe.source}\\n\\r?`, 'ugim'), '')
replaceNegligible(message) ==
  LET kept(l) == ~(negligibleLineTest(l.text) /\ l.eol = "\n")
  IN SelectSeq(message, kept)

LinesInit ==
  /\ Idle
  /\ call \in [fn : {"spawnStack"}, stage : {"setup", "build"},
               line : OutputLines, code : 0..1]
  /\ ret = NoCall

\* byline hands a line of stderr to the progress handler of the stage
StageLine ==
  /\ call.fn = "spawnStack" /\ ret = NoCall
  /\ ret' = [fn |-> "spawnStack", st |-> "running",
             emitted |-> IF call.stage = "setup"
                         THEN setupProgress(call.line)
                         ELSE buildProgress(call.line),
             error |-> <<>>]
  /\ UNCHANGED <<flow, call>>

\* 'close': spawnStack resolves, or rejects and buildPurescript's catch
\* handler of the stage runs
StageClose ==
  /\ ret.fn = "spawnStack" /\ ret.st = "running"
  /\ ret' = [ret EXCEPT
       !.st = IF call.code = 0 THEN "ok" ELSE "fail",
       !.error = IF call.code = 0 THEN <<>>
                 ELSE IF call.stage = "setup" THEN exitError
                 ELSE replaceNegligible(exitError)]
  /\ UNCHANGED <<flow, call>>

LinesNext == StageLine \/ StageClose

LinesSpec == LinesInit /\ [][LinesNext]_vars

\* C29: no event of the setup stage or of the build stage carries an output
\* line that matches the benign-warning pattern, and no error of those
\* stages has such a line in its message.
C29_NoBenignWarnings ==
  ret.fn = "spawnStack" =>
    /\ \A i \in 1..Len(ret.emitted) : ~negligibleLineTest(ret.emitted[i].output)
    /\ \A i \in 1..Len(ret.error) : ~negligibleLineTest(ret.error[i].text)

\* ------------------------- downloadOrBuildPurescript under fixed results

\* the results of the external operations of one acquisition: the prebuilt
\* download (ok, refused for the platform, failed before or after the purs
\* entry), verifyBinary, the lookup of stack, the source download (ok, failed
\* before or after stack.yaml was extracted), the exit status of
\* `stack setup` and `stack install`, and rename
Oracles ==
  [fn : {"downloadOrBuildPurescript"},
   fetch : {"ok", "unsupported", "head", "stream"},
   verify : BOOLEAN,
   stack : {"ok", "fail"},
   source : {"ok", "early", "late"},
   setup : BOOLEAN, install : BOOLEAN, rename : BOOLEAN]

RaceInit ==
  /\ Idle
  /\ call \in Oracles
  /\ ret = NoCall

Racing == ret.fn = "downloadOrBuildPurescript" /\ ret.outcome = "none"

\* the promise settles: resolved, or rejected with e.id
settle(id) == ret' = [ret EXCEPT !.pc = "done", !.outcome = id]

\* downloadOrBuildPurescript(): which('stack') and downloadPurescript start
RaceCall ==
  /\ call.fn = "downloadOrBuildPurescript" /\ ret = NoCall
  /\ ret' = [fn |-> "downloadOrBuildPurescript", pc |-> "download",
             stackPromise |-> "pending", headComplete |-> FALSE,
             checkStack |-> FALSE,
             yaml |-> FALSE, setup |-> "none", outcome |-> "none"]
  /\ UNCHANGED <<flow, call>>

\* stackPromise settles, at any time after the call
RaceStack ==
  /\ Racing /\ ret.stackPromise = "pending"
  /\ ret' = [ret EXCEPT !.stackPromise = call.stack]
  /\ UNCHANGED <<flow, call>>

\* the filter accepts the purs entry: completeHead()
RaceHead ==
  /\ Racing /\ ret.pc = "download" /\ ~ret.headComplete
  /\ call.fetch \in {"ok", "stream"}
  /\ ret' = [ret EXCEPT !.headComplete = TRUE]
  /\ UNCHANGED <<flow, call>>

\* downloadPurescript resolves
RaceDownloadOk ==
  /\ Racing /\ ret.pc = "download" /\ ret.headComplete
  /\ call.fetch = "ok"
  /\ ret' = [ret EXCEPT !.pc = "verify"]
  /\ UNCHANGED <<flow, call>>

\* downloadPurescript rejects: startBuild() after the purs entry or for an
\* unsupported platform, else the error is thrown with id 'head'
RaceDownloadRejected ==
  /\ Racing /\ ret.pc = "download"
  /\ \/ call.fetch = "unsupported"
     \/ call.fetch = "head" /\ ~ret.headComplete
     \/ call.fetch = "stream" /\ ret.headComplete
  /\ IF ret.headComplete \/ call.fetch = "unsupported"
     THEN ret' = [ret EXCEPT !.pc = "awaitStack"]
     ELSE settle("head")
  /\ UNCHANGED <<flow, call>>

\* a success handler that waits for stackPromise before it returns
RaceVerifyAwaitsStack ==
  /\ Racing /\ ret.pc = "verify" /\ ret.stackPromise # "pending"
  /\ IF ~call.verify THEN ret' = [ret EXCEPT !.pc = "awaitStack"]
     ELSE IF ret.stackPromise = "ok" THEN settle("complete")
     ELSE settle("check-stack")
  /\ UNCHANGED <<flow, call>>

\* verifyBinary settles: success, or check-binary:fail and startBuild()
RaceVerify ==
  /\ Racing /\ ret.pc = "verify"
  /\ IF call.verify THEN settle("complete")
     ELSE ret' = [ret EXCEPT !.pc = "awaitStack"]
  /\ UNCHANGED <<flow, call>>

\* startBuild: `await stackPromise`, the check-stack events, then
\* buildPurescript starts dlTar
RaceAwaitStack ==
  /\ Racing /\ ret.pc = "awaitStack" /\ ret.stackPromise # "pending"
  /\ IF ret.stackPromise = "ok"
     THEN ret' = [ret EXCEPT !.pc = "dlSource", !.checkStack = TRUE]
     ELSE settle("check-stack")
  /\ UNCHANGED <<flow, call>>

\* stack.yaml is reported with no bytes left: the early setup()
RaceManifest ==
  /\ Racing /\ ret.pc = "dlSource" /\ ~ret.yaml
  /\ call.source \in {"ok", "late"}
  /\ ret' = [ret EXCEPT !.yaml = TRUE, !.setup = "running"]
  /\ UNCHANGED <<flow, call>>

\* `stack setup` closes, at any time after its spawn; the rejection of the
\* early call is swallowed by .catch(() => {})
RaceSetupClose ==
  /\ Racing /\ ret.setup = "running"
  /\ ret' = [ret EXCEPT !.setup = IF call.setup THEN "ok" ELSE "fail"]
  /\ UNCHANGED <<flow, call>>

\* a setup() whose failure ends the acquisition as soon as it happens
RaceSetupAwaitedEager ==
  /\ Racing /\ ret.setup = "fail"
  /\ settle("setup")
  /\ UNCHANGED <<flow, call>>

\* dlTar resolves: `await setup()` begins, spawning it if not yet spawned
RaceSourceOk ==
  /\ Racing /\ ret.pc = "dlSource" /\ call.source = "ok"
  /\ ret' = [ret EXCEPT !.pc = "awaitSetup",
                        !.setup = IF @ = "none" THEN "running" ELSE @]
  /\ UNCHANGED <<flow, call>>

\* dlTar rejects: e.id = 'download', renamed to 'download-source'
RaceSourceRejected ==
  /\ Racing /\ ret.pc = "dlSource"
  /\ \/ call.source = "early" /\ ~ret.yaml
     \/ call.source = "late" /\ ret.yaml
  /\ settle(renameId("download"))
  /\ UNCHANGED <<flow, call>>

\* `await setup()` settles: e.id = 'setup', or `stack install` is spawned
RaceSetupAwaited ==
  /\ Racing /\ ret.pc = "awaitSetup" /\ ret.setup \in {"ok", "fail"}
  /\ IF ret.setup = "ok" THEN ret' = [ret EXCEPT !.pc = "build"]
     ELSE settle("setup")
  /\ UNCHANGED <<flow, call>>

\* `stack install` closes: e.id = 'build', or rename follows
RaceBuildClose ==
  /\ Racing /\ ret.pc = "build"
  /\ IF call.install THEN ret' = [ret EXCEPT !.pc = "rename"]
     ELSE settle("build")
  /\ UNCHANGED <<flow, call>>

\* rename(buildBinPath, binPath) settles: build:complete or e.id = 'build'
RaceRename ==
  /\ Racing /\ ret.pc = "rename"
  /\ settle(IF call.rename THEN "complete" ELSE "build")
  /\ UNCHANGED <<flow, call>>

RaceNext ==
  \/ RaceCall \/ RaceStack \/ RaceHead \/ RaceDownloadOk
  \/ RaceDownloadRejected \/ RaceVerify \/ RaceAwaitStack \/ RaceManifest
  \/ RaceSetupClose \/ RaceSourceOk \/ RaceSourceRejected
  \/ RaceSetupAwaited \/ RaceBuildClose \/ RaceRename

RaceSpec == RaceInit /\ [][RaceNext]_vars

\* the outcome of the stages run one after the other
Sequential(o) ==
  IF o.fetch = "ok" /\ o.verify THEN "complete"
  ELSE IF o.fetch = "head" THEN "head"
  ELSE IF o.stack # "ok" THEN "check-stack"
  ELSE IF o.source # "ok" THEN "download-source"
  ELSE IF ~o.setup THEN "setup"
  ELSE IF ~o.install \/ ~o.rename THEN "build"
  ELSE "complete"

\* C28: for given results of the external operations the acquisition ends
\* with one outcome (success, or failure with one stage id), the outcome of
\* the stages run in sequence, whenever the lookup of stack settles
\* relative to the prebuilt download and whenever the early `stack setup`
\* closes relative to the rest of the source download.
C28_OutcomeIsDetermined ==
  (ret.fn = "downloadOrBuildPurescript" /\ ret.outcome # "none") =>
    ret.outcome = Sequential(call)

\* the source download failed after `stack setup`, started early, had
\* already failed
C28_Witness ==
  /\ ret.fn = "downloadOrBuildPurescript"
  /\ ret.outcome = "download-source" /\ ret.setup = "fail"
  /\ ret.stackPromise = "ok"

\* -------------------------------------------------- the end of the fallback

\* rename(buildBinPath, binPath) was rejected in this run
RenameFailed == build = "ok" /\ pend = "err" /\ errId = "build"

\* C31: build:complete is emitted only by the step in which the rename of
\* the built binary to the target path succeeds, after `stack install`
\* closed with code 0; when the rename fails the acquisition is rejected
\* with id 'build', the installation ends with that error, and neither
\* build:complete nor write-cache is emitted.
C31_BuildCompleteAfterRename ==
  /\ [][(~Has(events, "build", "complete") /\ Has(events', "build", "complete"))
          => (pc = "rename" /\ build = "ok" /\ target'.kind = "file"
              /\ target'.ver = version /\ pend' = "ok")]_vars
  /\ [][(pc = "rename" /\ pc' # "rename" /\ target'.kind # "file")
          => (pend' = "err" /\ errId' = "build" /\ events' = events)]_vars
  /\ [](RenameFailed =>
          /\ ~Has(events, "build", "complete")
          /\ ~Has(events, "write-cache", "")
          /\ pc \in {"awaitClean", "done"}
          /\ (pc = "done" /\ ~Cancelled => result = "error"))

\* an installation that ended with the error of the rename
C31_Witness ==
  /\ RenameFailed /\ pc = "done" /\ result = "error"
  /\ Has(events, "setup", "complete") /\ target.kind # "file"

\* C32: the error with which an installation ends carries the id of the
\* stage that produced it.
C32_ErrorsHaveStageId ==
  result = "error" => errId # ""

\* --------------------------------------------- installPurescript's options

\* the options of a call, and what the cache and the prebuilt download will
\* answer
OptionCalls ==
  [fn : {"installPurescript"}, version : {"0.13.0", "latest"},
   args : ArgLists, cache : {"miss", "hit"}, prebuilt : BOOLEAN]

\* semver.valid(version)
semverValid(v) == v = "0.13.0"

OptionsInit ==
  /\ Idle
  /\ call \in OptionCalls
  /\ ret = NoCall

\* the subscriber function of installPurescript: an invalid version throws,
\* else the cache lookup and the stat of binPath are started
OptionsSubscribe ==
  /\ call.fn = "installPurescript" /\ ret = NoCall
  /\ ret' = IF semverValid(call.version)
            THEN [fn |-> "installPurescript", pc |-> "search",
                  effects |-> {}, outcome |-> "none"]
            ELSE [fn |-> "installPurescript", pc |-> "done",
                  effects |-> {}, outcome |-> "ERR_INVALID_VERSION"]
  /\ UNCHANGED <<flow, call>>

\* cacache.get.info and stat/unlink have settled: a hit is restored and
\* verified, a miss starts main(): 'search-cache', 'head', which('stack')
\* and the request for the prebuilt archive
OptionsSearch ==
  /\ ret.fn = "installPurescript" /\ ret.pc = "search"
  /\ ret' = IF call.cache = "hit"
            THEN [ret EXCEPT !.pc = "done", !.outcome = "complete",
                             !.effects = {"cache", "filesystem", "event",
                                          "subprocess"}]
            ELSE [ret EXCEPT !.pc = "download",
                             !.effects = {"cache", "filesystem", "event",
                                          "network"}]
  /\ UNCHANGED <<flow, call>>

\* downloadPurescript and verifyBinary have settled: success, or startBuild
OptionsDownload ==
  /\ ret.fn = "installPurescript" /\ ret.pc = "download"
  /\ ret' = IF call.prebuilt
            THEN [ret EXCEPT !.pc = "done", !.outcome = "complete",
                             !.effects = @ \cup {"subprocess"}]
            ELSE [ret EXCEPT !.pc = "startBuild"]
  /\ UNCHANGED <<flow, call>>

\* startBuild: stackPromise (`stack --numeric-version`) is awaited, then
\* buildPurescript({args}) checks the arguments first
OptionsStartBuild ==
  /\ ret.fn = "installPurescript" /\ ret.pc = "startBuild"
  /\ ret' = [ret EXCEPT
       !.pc = "done",
       !.effects = @ \cup {"subprocess"},
       !.outcome = IF \E a \in Range(defaultArgs(call.args)) :
                        isLocalBinPathFlag(a)
                   THEN "ERR_INVALID_OPT_VALUE" ELSE "built"]
  /\ UNCHANGED <<flow, call>>

OptionsNext ==
  OptionsSubscribe \/ OptionsSearch \/ OptionsDownload \/ OptionsStartBuild

OptionsSpec == OptionsInit /\ [][OptionsNext]_vars

InvalidOptions ==
  \/ call.version # "0.13.0"
  \/ "--local-bin-path=/x" \in Range(call.args)

\* C33: a call with an invalid version or with a --local-bin-path argument
\* ends with the error of the invalid option, and has by then touched neither
\* the cache, the filesystem, the network nor a subprocess and has emitted
\* no event.
C33_InvalidOptionsFailFast ==
  (ret.fn = "installPurescript" /\ ret.pc = "done" /\ InvalidOptions) =>
    /\ ret.outcome \in {"ERR_INVALID_VERSION", "ERR_INVALID_OPT_VALUE"}
    /\ ret.effects = {}

\* ------------------------------------------------- the target path at start

\* the step with which the cache search ends
SearchEnds == pc = "search" /\ pc' # "search"

\* C34: with a directory at the target path the installation ends at once
\* with the error, with no event, no restore, no acquisition and nothing
\* deleted or written; with a regular file there, the file is gone when the
\* restore or the acquisition starts.
C34_TargetPathAtStart ==
  /\ [][(SearchEnds /\ target.kind = "dir") =>
          /\ pc' = "done" /\ events' = <<>> /\ acq' = 0
          /\ target' = target /\ cache' = cache /\ tmpdir' = tmpdir
          /\ stack' = "idle" /\ dl' = NoDl /\ clean' = "idle"
          /\ (~closed => result' = "error")]_vars
  /\ []((target.kind = "dir" /\ pc \notin {"idle", "search"}) =>
          (pc = "done" /\ events = <<>> /\ acq = 0))
  /\ [][(SearchEnds /\ target.kind # "dir") => target' = NoFile]_vars
  /\ [][(pc' \in {"restore", "download"}
          /\ pc \notin {"restore", "verifyCache", "download"})
          => (pc = "search" /\ target.kind # "dir" /\ target' = NoFile)]_vars

\* an installation that ended with the error of the directory
C34_Witness ==
  /\ pc = "done" /\ target.kind = "dir" /\ result = "error"
  /\ events = <<>> /\ acq = 0

\* ------------------------------------------------------------- termination

\* the steps taken when an external operation returns or a callback of the
\* event loop runs: every step but the subscription and the unsubscription
Returns ==
  \/ SearchDone
  \/ \E ok \in BOOLEAN : RestoreDone(ok)
  \/ VerifyCache
  \/ \E ok \in BOOLEAN : FetchDone(ok)
  \/ \E name \in BinaryNames \cup SourceNames, size \in 0..MaxSize :
       DlEntry(name, size)
  \/ \E works \in BOOLEAN : DlChunk(works)
  \/ FireImm
  \/ DownloadOk
  \/ DownloadRejected
  \/ VerifyDl
  \/ \E r \in {"ok", "enoent", "error"} : StackSettle(r)
  \/ AwaitStack
  \/ Mkdtemp
  \/ SourceOk
  \/ SourceRejected
  \/ SetupLine
  \/ \E ok \in BOOLEAN : SetupExit(ok)
  \/ SetupClose
  \/ SetupAwaited
  \/ \E negligible \in BOOLEAN : BuildLine(negligible)
  \/ \E ok \in BOOLEAN : BuildExit(ok)
  \/ BuildAwaited
  \/ \E produced \in BOOLEAN : Rename(produced)
  \/ RimrafDone
  \/ \E removed \in BOOLEAN : CleanDone(removed)
  \/ AfterClean
  \/ \E ok \in BOOLEAN : WriteCache(ok)

\* one installation, which its subscriber may unsubscribe from
LiveNext ==
  \/ \E v \in Versions : run = 0 /\ Start(v)
  \/ Returns
  \/ Cancel

\* the installer when every pending operation eventually returns
LiveSpec == Init /\ [][LiveNext]_vars /\ WF_vars(Returns)

\* how many times the stage was started or ended with sub
Times(stage, sub) ==
  Cardinality({i \in 1..Len(events) :
                 events[i].id = stage /\ events[i].sub = sub})

\* C35: an installation that was subscribed to reaches its end, and an
\* installation nobody unsubscribed from ends completed or with an error;
\* it restores the cache at most once, downloads the prebuilt archive at
\* most once, verifies once after the restore and once after the download
\* at most, and builds from source at most once.
C35_Terminates ==
  /\ (pc = "search") ~> (pc = "done")
  /\ []((pc = "done" /\ ~Cancelled) => result \in {"complete", "error"})
  /\ [](/\ Times("restore-cache", "") <= 1
        /\ Times("head", "") <= 1 /\ acq <= 1
        /\ Times("check-binary", "") <= Times("restore-cache", "complete")
                                         + Times("download-binary", "complete")
        /\ Times("restore-cache", "complete") <= 1
        /\ Times("download-binary", "complete") <= 1
        /\ Times("check-stack", "complete") <= 1
        /\ Times("download-source", "complete") <= 1
        /\ Times("setup", "complete") <= 1
        /\ Times("build", "complete") <= 1)

\* the longest way: the restored binary and the downloaded one both fail
\* the verification, and the build ends the installation
C35_Witness ==
  /\ pc = "done" /\ result = "complete"
  /\ Times("check-binary", "fail") = 2
  /\ Times("build", "complete") = 1

\* C36: write-cache is entered, and the cache written, only in an
\* installation whose acquisition ended with check-binary:complete or
\* build:complete, and never once the signal is aborted.
C36_WriteCacheAfterSuccess ==
  /\ [](Has(events, "write-cache", "") =>
          (Has(events, "check-binary", "complete")
           \/ Has(events, "build", "complete")))
  /\ [][(cache' # cache /\ cache'.present) =>
          (/\ ~aborted
           /\ Has(events, "write-cache", "")
           /\ (Has(events, "check-binary", "complete")
               \/ Has(events, "build", "complete")))]_vars

\* the step writes an entry into the cache / removes the entry
CacheWritten == cache' # cache /\ cache'.present
CacheRemoved == cache.present /\ ~cache'.present

\* C37: the removal of the stale entry and cacache.verify have both ended
\* when the acquired binary is written to the cache; from then on nothing
\* in the installation removes the entry, so the written entry is the one
\* the cache holds when the installation is over.
C37_CleanBeforeWrite ==
  /\ [][CacheWritten =>
          (clean = "done" /\ pc = "writeCache"
           /\ cache' = [present |-> TRUE, id |-> <<version, platform>>,
                        bin |-> target])]_vars
  /\ [][CacheRemoved => (clean = "running" /\ broken /\ pc = "awaitClean")]_vars
  /\ [](pc = "writeCache" => clean = "done")
  /\ []((pc = "done" /\ Has(events, "write-cache", "complete")) =>
          (cache.present /\ cache.id = <<version, platform>>))

\* a stale entry was purged and the new binary is in the cache
C37_Witness ==
  /\ pc = "done" /\ broken /\ clean = "done"
  /\ Has(events, "write-cache", "complete")
  /\ cache.present /\ cache.id = <<version, platform>>
  /\ cache.bin = target

\* C38: when the prebuilt download and the verification of the downloaded
\* binary succeed, downloadOrBuildPurescript resolves whether stackPromise
\* is pending, resolved or rejected; startBuild is never entered, so no
\* check-stack event is emitted and no check-stack error is raised.
C38_PrebuiltIgnoresStack ==
  (ret.fn = "downloadOrBuildPurescript"
   /\ call.fetch = "ok" /\ call.verify) =>
    /\ ret.pc \in {"download", "verify", "done"}
    /\ ~ret.checkStack
    /\ ret.outcome \in {"none", "complete"}
    /\ (ret.pc = "done" <=> ret.outcome = "complete")
    /\ (ret.pc = "verify" /\ ret.stackPromise # "ok" => ENABLED RaceVerify)

\* the prebuilt binary was installed after the lookup of stack had failed
C38_Witness ==
  /\ ret.fn = "downloadOrBuildPurescript"
  /\ ret.outcome = "complete" /\ ret.stackPromise = "fail"
  /\ ~ret.checkStack

\* buildPurescript was called in this run and has settled
BuildSettled ==
  /\ tmpdir \in {"removing", "none"}
  /\ Has(events, "check-stack", "complete")
  /\ pc \in {"rename", "awaitClean", "writeCache", "done"}

\* C39: once buildPurescript has settled, neither `stack setup` nor
\* `stack install` is running.
C39_NoSubprocessOutlives ==
  BuildSettled => (setup # "running" /\ build # "running")

\* `stack setup`, started early, has ended with a code other than 0
SetupFailed == setup \in {"exitN", "fail", "abortedExitN"}

\* C40: when the early `stack setup` fails during the source download, the
\* step changes nothing else: the download goes on and no error is raised;
\* the flow leaves the download only by its completion or its own failure,
\* then ends with id 'setup' after a complete download and with id
\* 'download-source' after a failed one, and `stack install` is never
\* spawned.
C40_EarlySetupFailure ==
  /\ [][(pc = "dlSource" /\ ~SetupFailed /\ SetupFailed') =>
          UNCHANGED <<pc, dl, imm, pend, errId, events, result, closed,
                      aborted, tmpdir, build>>]_vars
  /\ []((pc = "dlSource" /\ SetupFailed) =>
          (pend = "" /\ errId = "" /\ result = "none" /\ build = "none"))
  /\ [][(pc = "dlSource" /\ SetupFailed /\ pc' # pc) =>
          \/ /\ pc' = "awaitSetup" /\ pend' = ""
             /\ events' = Append(events, Ev("download-source", "complete"))
          \/ /\ pc' = "awaitClean" /\ pend' = "err"
             /\ errId' = "download-source" /\ events' = events]_vars
  /\ [][(pc = "awaitSetup" /\ SetupFailed /\ pc' # pc) =>
          (pc' = "awaitClean" /\ pend' = "err" /\ errId' = "setup"
           /\ events' = events)]_vars
  /\ [](SetupFailed => (build = "none" /\ ~Has(events, "setup", "complete")))

\* setup has failed and the source download is still running
C40_Witness ==
  /\ pc = "dlSource" /\ setup = "fail" /\ dl.st = "stream"
  /\ ~aborted /\ result = "none"

====
